---- MODULE Spec2Model ----
(***************************************************************************)
(* Download supervision of src-tauri/src/lib.rs: the download_video        *)
(* command (bundled-sidecar loop and system-executable loop of             *)
(* handle_tokio_download), the stop_download command, the process-wide     *)
(* CANCEL_FLAG and the broad kill of kill_all_download_processes.          *)
(*                                                                         *)
(* Every download_video invocation is a task of Downloads, every           *)
(* stop_download invocation a task of Stops; tauri runs async commands     *)
(* concurrently, so their steps interleave at every access to shared       *)
(* state (the flag, the processes).  An output line is abstracted to the   *)
(* features the supervisor loop tests on it.                               *)
(*                                                                         *)
(* Spec, FairSpec    the commands running concurrently                     *)
(* RepeatedStopSpec  stop_download invoked again and again beside one      *)
(*                   download                                              *)
(* LoopSpec          one supervisor loop fed lines of text: the locals,    *)
(*                   the payload of every event                            *)
(* ParseSpec         one call of parse_progress on a line of text          *)
(* TranscriptSpec    get_video_transcript (commands/video.rs) and its      *)
(*                   temporary directory                                   *)
(* SubtitleSpec      parse_subtitle_file (commands/video.rs) on caption    *)
(*                   text, and once more on its own result                 *)
(* SummarySpec       generate_summary (services/ai.rs) and the three       *)
(*                   backends, one call and its HTTP exchange              *)
(* PromptSpec        build_prompt (services/ai.rs) on transcripts of       *)
(*                   runs of one- and two-byte characters, and the body    *)
(*                   each backend sends                                    *)
(* ArgsSpec          build_format_string and the argument list of          *)
(*                   download_video, over every quality and format         *)
(* DbSpec            init_database and get_db (database/connection.rs)     *)
(*                   called from several threads                           *)
(***************************************************************************)
EXTENDS Integers, Sequences, FiniteSets, TLC

\* Invocations of download_video and of stop_download that may run.
Downloads == {"d1", "d2"}
Stops == {"s1"}
Issuers == Downloads \cup Stops

\* Output events (stdout lines and stderr chunks) one process delivers at most.
MaxLines == 1

\* Exit status of a child: code 0, a non-zero code, or death by signal
\* (status.code == None on the sidecar path, !status.success() on the other).
ExitCodes == {"code0", "code1", "signal"}

\* A stdout line, as the features lib.rs tests: contains "[download]",
\* contains "%", and has digits directly before a "%".
Lines == [tag : BOOLEAN, percentSign : BOOLEAN, number : BOOLEAN]

VARIABLES
    cancelFlag,        \* CANCEL_FLAG
    flagBy,            \* the stop whose store(true) the flag holds, or "none"
    pc,                \* position of each download_video invocation
    path,              \* "sidecar" | "tokio" | "none": which executable runs
    proc,              \* child process: "none" | "running" | "exited"
    exitCode,          \* exit status of an exited child
    linesRead,         \* output events the supervisor's loop has received
    emitted,           \* statuses emitted on "download-progress", in order
    ret,               \* source line of the return taken, 0 before it
    seenFrom,          \* the stop whose store the last flag load read, or "none"
    spawnCount,        \* processes this invocation has started
    childKilled,       \* the supervisor called kill on its own child
    issued,            \* calls of kill_all_download_processes per task
    pending,           \* spawned pkill commands that have not run yet
    spc,               \* position of each stop_download invocation
    stopRet,           \* result of each stop_download invocation
    stoppedWhileActive,\* a stop stored the flag while this download was active
    enteredAfter,      \* the stops that had returned when this download entered
    idleAtStop         \* no download was in progress when the stop stored

dvars == <<pc, path, proc, exitCode, linesRead, emitted, ret, seenFrom,
           spawnCount, childKilled>>
svars == <<spc, stopRet, idleAtStop>>
hvars == <<stoppedWhileActive, enteredAfter>>

\* One supervisor loop followed line by line (lib.rs:364-447, 471-543).
VARIABLES
    loopPc,            \* "off" | "loop" | "wait" | "done"
    loopPath,          \* "sidecar" | "tokio": which loop runs
    fedLines,          \* the stdout lines handled so far, by name, in order
    current_title,     \* Option<String>
    current_index,     \* Option<u32>
    total_count,       \* Option<u32>
    progressEvents,    \* the DownloadProgress payloads emitted, in order
    emittedAfter,      \* how many lines had been received at each emission
    loopRet,           \* source line of the return taken, 0 before it
    lastInput          \* what the last iteration received and loaded

\* One call of parse_progress (lib.rs:248-272).
VARIABLES
    parseLine,         \* the argument, by its parts
    parseResult        \* <<>> before the call, <<returned Option>> after it

\* get_video_transcript (commands/video.rs:11-80).
VARIABLES
    transcriptPc,      \* position of each get_video_transcript invocation
    tempDir,           \* the directory <temp>/youwee_subs exists
    staged,            \* the caption files in it: who wrote each, its text
    transcriptRet,     \* source line of the return taken, 0 before it
    transcriptFrom,    \* whose output the returned transcript came from
    leftBehind,        \* what a request had written that was there at its return
    toolRuns,          \* what each run of yt-dlp by a request was asked for
    transcriptPick     \* the file a returned transcript was parsed from, what
                       \* its text was, and the files then still in the directory

\* One call of parse_subtitle_file (commands/video.rs:114-158) and one more
\* on what it returned.
VARIABLES
    captionContent,    \* the argument, by the blocks of lines it is made of
    captionParsed,     \* None before the call, Some(returned String) after it
    captionReparsed    \* the same for the call on the returned String

\* One call of generate_summary (services/ai.rs:313-335).
VARIABLES
    summaryPc,         \* position of the call
    aiConfig,          \* the AIConfig argument
    summaryTranscript, \* the transcript argument
    backend,           \* the generate_with_* function that was entered
    posts,             \* the HTTP POSTs sent, in order
    response,          \* what came back for the POST
    summaryRet         \* None before the return, Some(Result) after it

\* Calls of the backends on one transcript, as far as the request body
\* (services/ai.rs:147-165, 211-222, 267-279).
VARIABLES
    promptArgs,        \* transcript, style and language the calls are given
    backendCalls       \* per call: the backend, its model, the body it built

\* download_video from its entry to the argument list (lib.rs:305-352).
VARIABLES
    argsPc,            \* "off" | "called" | "format" | "args"
    request,           \* quality, format, download_playlist
    format_string,     \* what build_format_string returned
    args               \* the argument list

\* init_database and get_db (database/connection.rs).
VARIABLES
    DB_CONNECTION,     \* the OnceLock: "unset", or whose connection it holds
    dbPc,              \* position of each init_database call
    opened,            \* per init_database call: whether it opened a
                       \* connection, and whether the OnceLock was set then
    dbRet,             \* what each init_database call returned
    getRet             \* what each get_db call returned, "guard" while
                       \* the caller holds the MutexGuard

lvars == <<loopPc, loopPath, fedLines, current_title, current_index,
           total_count, progressEvents, emittedAfter, loopRet, lastInput>>
pvars == <<parseLine, parseResult>>
cvars == <<cancelFlag, flagBy, dvars, issued, pending, svars, hvars>>
\* What download_video and stop_download never touch.
tvars == <<transcriptPc, tempDir, staged, transcriptRet, transcriptFrom,
           leftBehind, toolRuns, transcriptPick>>
uvars == <<captionContent, captionParsed, captionReparsed>>
avars == <<summaryPc, aiConfig, summaryTranscript, backend, posts, response,
           summaryRet>>
bvars == <<promptArgs, backendCalls>>
gvars == <<argsPc, request, format_string, args>>
qvars == <<DB_CONNECTION, dbPc, opened, dbRet, getRet>>
nvars == <<bvars, gvars, qvars>>
elsewhere == <<lvars, pvars, tvars, uvars, avars, nvars>>
vars == <<cvars, elsewhere>>

\* Option<T>: None, Some(x).
None == <<>>
Some(x) == <<x>>

\* No supervisor loop is followed line by line.
LoopOff ==
    /\ loopPc = "off"
    /\ loopPath = "none"
    /\ fedLines = <<>>
    /\ current_title = None
    /\ current_index = None
    /\ total_count = None
    /\ progressEvents = <<>>
    /\ emittedAfter = <<>>
    /\ loopRet = 0
    /\ lastInput = [event |-> "none", flag |-> FALSE, code |-> "code0"]

Requests == {"r1", "r2"}

\* The names yt-dlp gives the caption files for "-o <temp>/transcript".
CaptionFiles == {"transcript.en.vtt", "transcript.zh-Hans.vtt"}

Absent == [by |-> "none", text |-> "none"]

NoPick == [file |-> "none", text |-> "none", passedOver |-> {}]

\* No transcript was requested; nothing is staged.
TranscriptOff ==
    /\ transcriptPc = [r \in Requests |-> "idle"]
    /\ tempDir = FALSE
    /\ staged = [f \in CaptionFiles |-> Absent]
    /\ transcriptRet = [r \in Requests |-> 0]
    /\ transcriptFrom = [r \in Requests |-> "none"]
    /\ leftBehind = [r \in Requests |-> {}]
    /\ toolRuns = [r \in Requests |-> <<>>]
    /\ transcriptPick = [r \in Requests |-> NoPick]

\* No call of parse_subtitle_file is followed.
SubtitleOff ==
    /\ captionContent = <<>>
    /\ captionParsed = None
    /\ captionReparsed = None

\* No answer to a POST yet.
NoResponse == [transport |-> "none", status |-> 0, body |-> "none"]

\* No call of generate_summary is followed; the config is
\* AIConfig::default() (services/ai.rs:45-57).
SummaryOff ==
    /\ summaryPc = "off"
    /\ aiConfig = [provider |-> "Gemini", api_key |-> None,
                   model |-> "gemini-2.0-flash",
                   ollama_url |-> Some(<<"http://localhost:11434">>)]
    /\ summaryTranscript = <<>>
    /\ backend = "none"
    /\ posts = <<>>
    /\ response = NoResponse
    /\ summaryRet = None

\* The calls of a backend that are followed.
BackendCalls == {"c1", "c2"}

\* A call that was not made.
NoCall == [fn |-> "none", model |-> "none", panicked |-> FALSE, body |-> None]

\* No backend is called; style and language are those of
\* AIConfig::default() (services/ai.rs:53-54).
PromptOff ==
    /\ promptArgs = [transcript |-> <<>>, style |-> "Short",
                     language |-> "auto"]
    /\ backendCalls = [c \in BackendCalls |-> NoCall]

\* No download_video call is followed up to its argument list.
ArgsOff ==
    /\ argsPc = "off"
    /\ request = [quality |-> "best", format |-> "mp4",
                  download_playlist |-> FALSE]
    /\ format_string = <<>>
    /\ args = <<>>

\* The calls of init_database and of get_db that may run.
InitCallers == {"i1", "i2"}
GetCallers == {"g1", "g2"}

\* The process has started; nobody has called init_database or get_db
\* (connection.rs:6: the OnceLock is empty).
DatabaseOff ==
    /\ DB_CONNECTION = "unset"
    /\ dbPc = [c \in InitCallers |-> "idle"]
    /\ opened = [c \in InitCallers |-> "no"]
    /\ dbRet = [c \in InitCallers |-> "none"]
    /\ getRet = [g \in GetCallers |-> "none"]

\* No call of parse_progress is followed.
ParseOff ==
    /\ parseLine = <<>>
    /\ parseResult = <<>>

\* A download whose process has been started and whose supervisor loops.
Active(t) == pc[t] \in {"loop", "term_check", "tokio_loop", "tokio_wait"}

\* A download_video invocation in progress.
InProgress(t) == pc[t] \notin {"idle", "done"}

\* No command has been invoked, the flag is unset.
CommandsIdle ==
    /\ cancelFlag = FALSE
    /\ flagBy = "none"
    /\ pc = [t \in Downloads |-> "idle"]
    /\ path = [t \in Downloads |-> "none"]
    /\ proc = [t \in Downloads |-> "none"]
    /\ exitCode = [t \in Downloads |-> "code0"]
    /\ linesRead = [t \in Downloads |-> 0]
    /\ emitted = [t \in Downloads |-> <<>>]
    /\ ret = [t \in Downloads |-> 0]
    /\ seenFrom = [t \in Downloads |-> "none"]
    /\ spawnCount = [t \in Downloads |-> 0]
    /\ childKilled = [t \in Downloads |-> FALSE]
    /\ issued = [i \in Issuers |-> 0]
    /\ pending = [i \in Issuers |-> 0]
    /\ spc = [s \in Stops |-> "idle"]
    /\ stopRet = [s \in Stops |-> "none"]
    /\ stoppedWhileActive = [t \in Downloads |-> FALSE]
    /\ enteredAfter = [t \in Downloads |-> {}]
    /\ idleAtStop = [s \in Stops |-> FALSE]

Init ==
    /\ CommandsIdle
    /\ LoopOff
    /\ ParseOff
    /\ TranscriptOff
    /\ SubtitleOff
    /\ SummaryOff
    /\ PromptOff
    /\ ArgsOff
    /\ DatabaseOff

(***************************************************************************)
(* Pure helpers                                                            *)
(***************************************************************************)

\* parse_progress yields Some(..) exactly for a line that contains
\* "[download]" and "%" and on which the regex (\d+\.?\d*)% matches.
ParseProgressIsSome(line) == line.tag /\ line.percentSign /\ line.number

\* Outcome of an invocation, from the return it took.
Outcome(t) ==
    CASE ret[t] \in {439, 539} -> "finished"
      [] ret[t] \in {373, 424, 479, 524} -> "cancelled"
      [] ret[t] \in {441, 541} -> "failed"
      [] ret[t] \in {420, 521} -> "process_error"
      [] ret[t] \in {362, 456} -> "spawn_error"
      [] ret[t] = 447 -> "stream_end"
      [] OTHER -> "none"

\* The Result the command returns: Ok(()) at lines 439, 447 and 539.
Result(t) ==
    IF ret[t] = 0 THEN "none"
    ELSE IF ret[t] \in {439, 447, 539} THEN "Ok" ELSE "Err"


(***************************************************************************)
(* kill_all_download_processes and the kills of one child                  *)
(***************************************************************************)

\* kill_all_download_processes: spawns pkill/taskkill and does not wait for
\* it; the kill happens when the spawned command runs (KillEffect).
KillAllDownloadProcesses(i) ==
    /\ issued' = [issued EXCEPT ![i] = @ + 1]
    /\ pending' = [pending EXCEPT ![i] = @ + 1]

\* child.kill() / process.kill(): the child of t dies by signal unless it
\* has exited already; the call's result is discarded (.ok()).
KillOwnChild(t) ==
    /\ childKilled' = [childKilled EXCEPT ![t] = TRUE]
    /\ IF proc[t] = "running"
       THEN /\ proc' = [proc EXCEPT ![t] = "exited"]
            /\ exitCode' = [exitCode EXCEPT ![t] = "signal"]
       ELSE UNCHANGED <<proc, exitCode>>

\* KillEffect with a pattern that matches no download process.
KillEffect_NoMatch(i) ==
    /\ pending[i] > 0
    /\ pending' = [pending EXCEPT ![i] = @ - 1]
    /\ UNCHANGED <<cancelFlag, flagBy, dvars, issued, svars, hvars>>
    /\ UNCHANGED elsewhere

\* A spawned pkill -9 -f yt-dlp / ffmpeg runs: every download process alive
\* at that moment dies by signal, whichever invocation started it.
KillEffect(i) ==
    /\ pending[i] > 0
    /\ pending' = [pending EXCEPT ![i] = @ - 1]
    /\ proc' = [t \in Downloads |->
                  IF proc[t] = "running" THEN "exited" ELSE proc[t]]
    /\ exitCode' = [t \in Downloads |->
                  IF proc[t] = "running" THEN "signal" ELSE exitCode[t]]
    /\ UNCHANGED <<cancelFlag, flagBy, pc, path, linesRead, emitted, ret,
                   seenFrom, spawnCount, childKilled, issued, svars, hvars>>
    /\ UNCHANGED elsewhere

\* The child exits by itself, with code 0 or a non-zero code.
ProcExit(t, code) ==
    /\ proc[t] = "running"
    /\ code \in {"code0", "code1"}
    /\ proc' = [proc EXCEPT ![t] = "exited"]
    /\ exitCode' = [exitCode EXCEPT ![t] = code]
    /\ UNCHANGED <<cancelFlag, flagBy, pc, path, linesRead, emitted, ret,
                   seenFrom, spawnCount, childKilled, issued, pending, svars,
                   hvars>>
    /\ UNCHANGED elsewhere

(***************************************************************************)
(* download_video: entry and start of the process                          *)
(***************************************************************************)

\* ResetCancelFlag left out: the flag keeps what an earlier stop stored.
ResetCancelFlag_Missing(t) ==
    UNCHANGED <<cancelFlag, flagBy>>

\* lib.rs:314: CANCEL_FLAG.store(false) on entry.
ResetCancelFlag(t) ==
    /\ cancelFlag' = FALSE
    /\ flagBy' = "none"

\* download_video is invoked: the flag is reset; the argument list that is
\* built next (lines 316-352) touches no shared state.
Invoke(t) ==
    /\ pc[t] = "idle"
    /\ ResetCancelFlag(t)
    /\ pc' = [pc EXCEPT ![t] = "starting"]
    /\ enteredAfter' = [enteredAfter EXCEPT
                            ![t] = {s \in Stops : spc[s] = "done"}]
    /\ UNCHANGED <<path, proc, exitCode, linesRead, emitted, ret, seenFrom,
                   spawnCount, childKilled, issued, pending, svars,
                   stoppedWhileActive>>
    /\ UNCHANGED elsewhere

\* Return from download_video at source line `line`; the locals of the
\* supervisor loop go out of scope.
Return(t, line) ==
    /\ pc' = [pc EXCEPT ![t] = "done"]
    /\ ret' = [ret EXCEPT ![t] = line]
    /\ linesRead' = [linesRead EXCEPT ![t] = 0]

\* A process is started for t on the given path.
StartProcess(t, p) ==
    /\ proc' = [proc EXCEPT ![t] = "running"]
    /\ path' = [path EXCEPT ![t] = p]
    /\ spawnCount' = [spawnCount EXCEPT ![t] = @ + 1]

\* lib.rs:355-362: the sidecar resolves; spawn succeeds, or fails and the
\* command returns "Failed to start bundled yt-dlp".
SpawnSidecar(t, ok) ==
    /\ pc[t] = "starting"
    /\ IF ok
       THEN /\ StartProcess(t, "sidecar")
            /\ pc' = [pc EXCEPT ![t] = "loop"]
            /\ UNCHANGED <<ret, linesRead>>
       ELSE /\ Return(t, 362)
            /\ UNCHANGED <<proc, path, spawnCount>>
    /\ UNCHANGED <<cancelFlag, flagBy, exitCode, emitted, seenFrom,
                   childKilled, issued, pending, svars, hvars>>
    /\ UNCHANGED elsewhere

\* SpawnSystem also taken once the bundled executable has been started.
SpawnSystem_AfterSidecar(t, ok) ==
    /\ pc[t] \in {"starting", "loop"}
    /\ IF ok
       THEN /\ StartProcess(t, "tokio")
            /\ pc' = [pc EXCEPT ![t] = "tokio_loop"]
            /\ UNCHANGED <<ret, linesRead>>
       ELSE /\ Return(t, 456)
            /\ UNCHANGED <<proc, path, spawnCount>>
    /\ UNCHANGED <<cancelFlag, flagBy, exitCode, emitted, seenFrom,
                   childKilled, issued, pending, svars, hvars>>
    /\ UNCHANGED elsewhere

\* lib.rs:449-458: the sidecar does not resolve; the system yt-dlp is
\* spawned, or the command returns "Failed to start yt-dlp".
SpawnSystem(t, ok) ==
    /\ pc[t] = "starting"
    /\ IF ok
       THEN /\ StartProcess(t, "tokio")
            /\ pc' = [pc EXCEPT ![t] = "tokio_loop"]
            /\ UNCHANGED <<ret, linesRead>>
       ELSE /\ Return(t, 456)
            /\ UNCHANGED <<proc, path, spawnCount>>
    /\ UNCHANGED <<cancelFlag, flagBy, exitCode, emitted, seenFrom,
                   childKilled, issued, pending, svars, hvars>>
    /\ UNCHANGED elsewhere


(***************************************************************************)
(* The supervisor loops                                                    *)
(***************************************************************************)

\* CANCEL_FLAG.load(): the value read, kept with the store it came from.
LoadFlag(t) ==
    seenFrom' = [seenFrom EXCEPT ![t] = IF cancelFlag THEN flagBy ELSE "none"]

\* app.emit("download-progress", ..) with the given status; errors ignored.
Emit(t, status) ==
    emitted' = [emitted EXCEPT ![t] = Append(@, status)]

\* CancelAtLoopHead without its return: the loop goes on after the kills.
CancelAtLoopHead_NoReturn(t, line) ==
    /\ KillOwnChild(t)
    /\ KillAllDownloadProcesses(t)
    /\ ret' = [ret EXCEPT ![t] = line]
    /\ UNCHANGED <<pc, linesRead>>

\* lib.rs:370-374 and 476-480: the flag was read set at the head of the
\* loop: kill the own child, broad-kill, return "Download cancelled".
CancelAtLoopHead(t, line) ==
    /\ KillOwnChild(t)
    /\ KillAllDownloadProcesses(t)
    /\ Return(t, line)

\* lib.rs:377-417 and 482-518: a stdout line is classified; a line on which
\* parse_progress yields a result is emitted with status "downloading".
HandleLine(t, line) ==
    IF ParseProgressIsSome(line)
    THEN Emit(t, "downloading")
    ELSE UNCHANGED emitted

\* TerminalDecision with the exit code tested before the flag.
TerminalDecision_ExitCodeFirst(t, cancelLine, okLine, failLine) ==
    IF exitCode[t] = "code0"
    THEN /\ Emit(t, "finished")
         /\ Return(t, okLine)
    ELSE IF cancelFlag
         THEN /\ Return(t, cancelLine)
              /\ UNCHANGED emitted
         ELSE /\ Return(t, failLine)
              /\ UNCHANGED emitted

\* TerminalDecision without the flag test of lines 423 and 523.
TerminalDecision_NoFlagCheck(t, cancelLine, okLine, failLine) ==
    IF exitCode[t] = "code0"
    THEN /\ Emit(t, "finished")
         /\ Return(t, okLine)
    ELSE /\ Return(t, failLine)
         /\ UNCHANGED emitted

\* TerminalDecision that returns Ok(()) without emitting "finished".
TerminalDecision_SilentFinish(t, cancelLine, okLine, failLine) ==
    IF cancelFlag
    THEN /\ Return(t, cancelLine)
         /\ UNCHANGED emitted
    ELSE IF exitCode[t] = "code0"
         THEN /\ Return(t, okLine)
              /\ UNCHANGED emitted
         ELSE /\ Return(t, failLine)
              /\ UNCHANGED emitted

\* lib.rs:423-442 and 523-542: the termination status is known: the flag
\* decides first, the exit code second.
TerminalDecision(t, cancelLine, okLine, failLine) ==
    IF cancelFlag
    THEN /\ Return(t, cancelLine)
         /\ UNCHANGED emitted
    ELSE IF exitCode[t] = "code0"
         THEN /\ Emit(t, "finished")
              /\ Return(t, okLine)
         ELSE /\ Return(t, failLine)
              /\ UNCHANGED emitted

\* What no step of a supervisor loop changes.
LoopFrame ==
    UNCHANGED <<cancelFlag, flagBy, path, spawnCount, svars, hvars, elsewhere>>

\* What a step changes only when it cancels at the head of the loop.
NoCancelFrame == UNCHANGED <<childKilled, proc, exitCode, issued, pending>>

\* One more output event has been taken from the stream.
CountEvent(t) == linesRead' = [linesRead EXCEPT ![t] = @ + 1]

\* Sidecar loop, CommandEvent::Stdout (lib.rs:368-417).
SidecarStdout(t, line) ==
    /\ pc[t] = "loop"
    /\ linesRead[t] < MaxLines
    /\ LoadFlag(t)
    /\ IF cancelFlag
       THEN /\ CancelAtLoopHead(t, 373)
            /\ UNCHANGED emitted
       ELSE /\ HandleLine(t, line)
            /\ CountEvent(t)
            /\ NoCancelFrame
            /\ UNCHANGED <<pc, ret>>
    /\ LoopFrame

\* Sidecar loop, CommandEvent::Stderr (lib.rs:418): ignored after the check.
SidecarStderr(t) ==
    /\ pc[t] = "loop"
    /\ linesRead[t] < MaxLines
    /\ LoadFlag(t)
    /\ IF cancelFlag
       THEN CancelAtLoopHead(t, 373)
       ELSE /\ CountEvent(t)
            /\ NoCancelFrame
            /\ UNCHANGED <<pc, ret>>
    /\ UNCHANGED emitted
    /\ LoopFrame

\* Sidecar loop, CommandEvent::Error (lib.rs:419-421): a pipe read or the
\* wait failed; the child may still run.
SidecarError(t) ==
    /\ pc[t] = "loop"
    /\ LoadFlag(t)
    /\ IF cancelFlag
       THEN CancelAtLoopHead(t, 373)
       ELSE /\ Return(t, 420)
            /\ NoCancelFrame
    /\ UNCHANGED emitted
    /\ LoopFrame

\* Sidecar loop, CommandEvent::Terminated received (lib.rs:368-374, 422):
\* the event exists once the child has exited.
SidecarTerminated(t) ==
    /\ pc[t] = "loop"
    /\ proc[t] = "exited"
    /\ LoadFlag(t)
    /\ IF cancelFlag
       THEN CancelAtLoopHead(t, 373)
       ELSE /\ pc' = [pc EXCEPT ![t] = "term_check"]
            /\ NoCancelFrame
            /\ UNCHANGED <<ret, linesRead>>
    /\ UNCHANGED emitted
    /\ LoopFrame

\* Sidecar loop, the Terminated arm (lib.rs:423-442): second load of the flag.
SidecarTermCheck(t) ==
    /\ pc[t] = "term_check"
    /\ LoadFlag(t)
    /\ TerminalDecision(t, 424, 439, 441)
    /\ NoCancelFrame
    /\ LoopFrame

\* Sidecar loop, rx.recv() yields None (lib.rs:368, 447): every sender of
\* the channel is gone, which needs the child to have exited, and no
\* Terminated or Error event was received; the command returns Ok(()).
SidecarClosed(t) ==
    /\ pc[t] = "loop"
    /\ proc[t] = "exited"
    /\ Return(t, 447)
    /\ NoCancelFrame
    /\ UNCHANGED <<emitted, seenFrom>>
    /\ LoopFrame

\* handle_tokio_download loop, a line was read (lib.rs:475-519).
TokioLine(t, line) ==
    /\ pc[t] = "tokio_loop"
    /\ linesRead[t] < MaxLines
    /\ LoadFlag(t)
    /\ IF cancelFlag
       THEN /\ CancelAtLoopHead(t, 479)
            /\ UNCHANGED emitted
       ELSE /\ HandleLine(t, line)
            /\ CountEvent(t)
            /\ NoCancelFrame
            /\ UNCHANGED <<pc, ret>>
    /\ LoopFrame

\* next_line() yields Ok(None): stdout reached its end, the child exited.
TokioEndOfOutput(t) ==
    /\ pc[t] = "tokio_loop"
    /\ proc[t] = "exited"
    /\ pc' = [pc EXCEPT ![t] = "tokio_wait"]
    /\ NoCancelFrame
    /\ UNCHANGED <<linesRead, emitted, ret, seenFrom>>
    /\ LoopFrame

\* next_line() yields Err (an I/O error, a line that is not UTF-8): the
\* while-let ends although the child may still run.
TokioReadError(t) ==
    /\ pc[t] = "tokio_loop"
    /\ pc' = [pc EXCEPT ![t] = "tokio_wait"]
    /\ NoCancelFrame
    /\ UNCHANGED <<linesRead, emitted, ret, seenFrom>>
    /\ LoopFrame

\* process.wait() returns the status of the exited child (lib.rs:521-542).
TokioWait(t) ==
    /\ pc[t] = "tokio_wait"
    /\ proc[t] = "exited"
    /\ LoadFlag(t)
    /\ TerminalDecision(t, 524, 539, 541)
    /\ NoCancelFrame
    /\ LoopFrame

\* process.wait() fails (lib.rs:521): "Process error" is returned.
TokioWaitError(t) ==
    /\ pc[t] = "tokio_wait"
    /\ Return(t, 521)
    /\ NoCancelFrame
    /\ UNCHANGED <<emitted, seenFrom>>
    /\ LoopFrame

(***************************************************************************)
(* stop_download                                                           *)
(***************************************************************************)

\* lib.rs:548: CANCEL_FLAG.store(true).
StopSetFlag(s) ==
    /\ spc[s] = "idle"
    /\ spc' = [spc EXCEPT ![s] = "kill1"]
    /\ cancelFlag' = TRUE
    /\ flagBy' = s
    /\ idleAtStop' = [idleAtStop EXCEPT ![s] = \A t \in Downloads : ~InProgress(t)]
    /\ stoppedWhileActive' = [t \in Downloads |->
                                 stoppedWhileActive[t] \/ Active(t)]
    /\ UNCHANGED <<dvars, issued, pending, stopRet, enteredAfter>>
    /\ UNCHANGED elsewhere

\* lib.rs:551: the first broad kill; the 500 ms sleep follows.
StopKill1(s) ==
    /\ spc[s] = "kill1"
    /\ spc' = [spc EXCEPT ![s] = "sleep"]
    /\ KillAllDownloadProcesses(s)
    /\ UNCHANGED <<cancelFlag, flagBy, dvars, stopRet, idleAtStop, hvars>>
    /\ UNCHANGED elsewhere

\* StopKill2 that returns after the sleep without repeating the kill.
StopKill2_NoRepeat(s) ==
    /\ spc[s] = "sleep"
    /\ spc' = [spc EXCEPT ![s] = "done"]
    /\ stopRet' = [stopRet EXCEPT ![s] = "Ok"]
    /\ UNCHANGED <<cancelFlag, flagBy, dvars, issued, pending, idleAtStop,
                   hvars>>
    /\ UNCHANGED elsewhere

\* StopKill2 that reports an error when no download process is running.
StopKill2_ErrWhenNothingRuns(s) ==
    /\ spc[s] = "sleep"
    /\ spc' = [spc EXCEPT ![s] = "done"]
    /\ KillAllDownloadProcesses(s)
    /\ stopRet' = [stopRet EXCEPT ![s] =
                      IF \E t \in Downloads : proc[t] = "running"
                      THEN "Ok" ELSE "Err"]
    /\ UNCHANGED <<cancelFlag, flagBy, dvars, idleAtStop, hvars>>
    /\ UNCHANGED elsewhere

\* lib.rs:554-557: the sleep is over; the broad kill is repeated, Ok(()).
StopKill2(s) ==
    /\ spc[s] = "sleep"
    /\ spc' = [spc EXCEPT ![s] = "done"]
    /\ KillAllDownloadProcesses(s)
    /\ stopRet' = [stopRet EXCEPT ![s] = "Ok"]
    /\ UNCHANGED <<cancelFlag, flagBy, dvars, idleAtStop, hvars>>
    /\ UNCHANGED elsewhere

(***************************************************************************)
(* Specification                                                           *)
(***************************************************************************)

Next ==
    \/ \E t \in Downloads : Invoke(t)
    \/ \E t \in Downloads, ok \in BOOLEAN : SpawnSidecar(t, ok)
    \/ \E t \in Downloads, ok \in BOOLEAN : SpawnSystem(t, ok)
    \/ \E t \in Downloads, line \in Lines : SidecarStdout(t, line)
    \/ \E t \in Downloads : SidecarStderr(t)
    \/ \E t \in Downloads : SidecarError(t)
    \/ \E t \in Downloads : SidecarTerminated(t)
    \/ \E t \in Downloads : SidecarTermCheck(t)
    \/ \E t \in Downloads : SidecarClosed(t)
    \/ \E t \in Downloads, line \in Lines : TokioLine(t, line)
    \/ \E t \in Downloads : TokioEndOfOutput(t)
    \/ \E t \in Downloads : TokioReadError(t)
    \/ \E t \in Downloads : TokioWait(t)
    \/ \E t \in Downloads : TokioWaitError(t)
    \/ \E t \in Downloads, code \in ExitCodes : ProcExit(t, code)
    \/ \E i \in Issuers : KillEffect(i)
    \/ \E s \in Stops : StopSetFlag(s)
    \/ \E s \in Stops : StopKill1(s)
    \/ \E s \in Stops : StopKill2(s)

Spec == Init /\ [][Next]_vars


\* The scheduling the runtime gives: a supervisor whose child has exited
\* gets its Terminated event / end of output and runs its checks, a stop
\* task runs on to its broad kill, a spawned pkill runs.  Nothing forces a
\* child to exit by itself, to write, or a stream to fail.
Fairness ==
    /\ \A t \in Downloads :
          /\ WF_vars(SidecarTerminated(t))
          /\ WF_vars(SidecarTermCheck(t))
          /\ WF_vars(TokioEndOfOutput(t))
          /\ WF_vars(TokioWait(t))
    /\ \A s \in Stops : WF_vars(StopKill1(s))
    /\ \A i \in Issuers : WF_vars(KillEffect(i))

FairSpec == Spec /\ Fairness

(***************************************************************************)
(* stop_download invoked again                                             *)
(***************************************************************************)

\* Calls of stop_download the front end makes one after the other.
MaxStopCalls == 2

\* The download that runs beside the repeated stops.
StoppedDownloads == {"d1"}

\* stop_download has returned and the front end invokes it again
\* (lib.rs:545-547); each call makes two broad kills.
StopAgain(s) ==
    /\ spc[s] = "done"
    /\ issued[s] < 2 * MaxStopCalls
    /\ spc' = [spc EXCEPT ![s] = "idle"]
    /\ stopRet' = [stopRet EXCEPT ![s] = "none"]
    /\ UNCHANGED <<cancelFlag, flagBy, dvars, issued, pending, idleAtStop,
                   hvars>>
    /\ UNCHANGED elsewhere

RepeatedStopNext ==
    \/ \E t \in StoppedDownloads : Invoke(t)
    \/ \E t \in StoppedDownloads, ok \in BOOLEAN : SpawnSidecar(t, ok)
    \/ \E t \in StoppedDownloads, ok \in BOOLEAN : SpawnSystem(t, ok)
    \/ \E t \in StoppedDownloads, line \in Lines : SidecarStdout(t, line)
    \/ \E t \in StoppedDownloads : SidecarStderr(t)
    \/ \E t \in StoppedDownloads : SidecarError(t)
    \/ \E t \in StoppedDownloads : SidecarTerminated(t)
    \/ \E t \in StoppedDownloads : SidecarTermCheck(t)
    \/ \E t \in StoppedDownloads : SidecarClosed(t)
    \/ \E t \in StoppedDownloads, line \in Lines : TokioLine(t, line)
    \/ \E t \in StoppedDownloads : TokioEndOfOutput(t)
    \/ \E t \in StoppedDownloads : TokioReadError(t)
    \/ \E t \in StoppedDownloads : TokioWait(t)
    \/ \E t \in StoppedDownloads : TokioWaitError(t)
    \/ \E t \in StoppedDownloads, code \in ExitCodes : ProcExit(t, code)
    \/ \E i \in Issuers : KillEffect(i)
    \/ \E s \in Stops : StopSetFlag(s)
    \/ \E s \in Stops : StopKill1(s)
    \/ \E s \in Stops : StopKill2(s)
    \/ \E s \in Stops : StopAgain(s)

RepeatedStopSpec == Init /\ [][RepeatedStopNext]_vars

(***************************************************************************)
(* Output lines as text                                                    *)
(*                                                                         *)
(* A line is a sequence of lexemes: a single character where the code      *)
(* looks at characters (a digit, ".", "%", "/", ":", "-", a blank), a      *)
(* whole word of other non-blank characters elsewhere.  "<0xFF>" is a      *)
(* byte that is not UTF-8, "<U+FFFD>" the replacement character.           *)
(***************************************************************************)

Digit == {"0", "1", "2", "3", "4", "5", "6", "7", "8", "9"}

DigitVal == [c \in Digit |->
    CASE c = "0" -> 0 [] c = "1" -> 1 [] c = "2" -> 2 [] c = "3" -> 3
      [] c = "4" -> 4 [] c = "5" -> 5 [] c = "6" -> 6 [] c = "7" -> 7
      [] c = "8" -> 8 [] c = "9" -> 9]

\* \d, \s and \S of the regex crate.
IsDigit(c) == c \in Digit
IsSpace(c) == c = " "

Min(S) == CHOOSE x \in S : \A y \in S : x <= y
Max(S) == CHOOSE x \in S : \A y \in S : y <= x

\* The text w stands at position i of s.
At(s, i, w) ==
    /\ i >= 1
    /\ i + Len(w) - 1 <= Len(s)
    /\ SubSeq(s, i, i + Len(w) - 1) = w

\* str::contains.
Contains(s, w) == \E i \in 1..Len(s) : At(s, i, w)

\* The first position from i on that holds no digit (blank, non-blank):
\* where a greedy \d* (\s*, \S*) started at i ends.
DigitsEnd(s, i) ==
    Min({j \in i..(Len(s) + 1) : j = Len(s) + 1 \/ ~IsDigit(s[j])})
SpacesEnd(s, i) ==
    Min({j \in i..(Len(s) + 1) : j = Len(s) + 1 \/ ~IsSpace(s[j])})
NonSpaceEnd(s, i) ==
    Min({j \in i..(Len(s) + 1) : j = Len(s) + 1 \/ IsSpace(s[j])})

\* String::from_utf8_lossy (lib.rs:378).
FromUtf8Lossy(bytes) ==
    [i \in 1..Len(bytes) |->
        IF bytes[i] = "<0xFF>" THEN "<U+FFFD>" ELSE bytes[i]]

\* The bytes are a UTF-8 string: what next_line() needs to return Ok.
IsUtf8(bytes) == \A i \in 1..Len(bytes) : bytes[i] # "<0xFF>"

\* The largest u32, in decimal.
U32Max == <<"4", "2", "9", "4", "9", "6", "7", "2", "9", "5">>

\* A run of digits without its leading zeros.
StripZeros(ds) ==
    LET nz == {i \in 1..Len(ds) : ds[i] # "0"}
    IN  IF nz = {} THEN <<"0">> ELSE SubSeq(ds, Min(nz), Len(ds))

\* a <= b for two decimal numbers of the same length.
DecimalLeq(a, b) ==
    LET diff == {i \in 1..Len(a) : a[i] # b[i]}
    IN  diff = {} \/ DigitVal[a[Min(diff)]] < DigitVal[b[Min(diff)]]

\* str::parse::<u32>().ok() of a run of digits: the number, written without
\* leading zeros, or None when it does not fit 32 bits.
ParseU32(ds) ==
    LET v == StripZeros(ds)
    IN  IF Len(v) < Len(U32Max) \/ (Len(v) = Len(U32Max) /\ DecimalLeq(v, U32Max))
        THEN Some(v)
        ELSE None

RECURSIVE Natural(_)
\* The value of a run of digits.
Natural(ds) ==
    IF ds = <<>> THEN 0
    ELSE Natural(SubSeq(ds, 1, Len(ds) - 1)) * 10 + DigitVal[ds[Len(ds)]]

\* str::parse::<f64>() of what (\d+\.?\d*) captured, in hundredths; digits
\* after the second decimal are below the resolution kept here.
ParseF64(g) ==
    LET dots == {k \in 1..Len(g) : g[k] = "."}
        whole == IF dots = {} THEN g ELSE SubSeq(g, 1, Min(dots) - 1)
        frac == IF dots = {} THEN <<>> ELSE SubSeq(g, Min(dots) + 1, Len(g))
    IN  Natural(whole) * 100
          + (IF Len(frac) >= 1 THEN DigitVal[frac[1]] * 10 ELSE 0)
          + (IF Len(frac) >= 2 THEN DigitVal[frac[2]] ELSE 0)

\* A match of "Downloading item (\d+) of (\d+)" that starts at i: its two
\* captures, or <<>> when there is none.
ItemMatchAt(s, i) ==
    LET a == i + 4
        b == DigitsEnd(s, a)
        c == b + 3
        d == DigitsEnd(s, c)
    IN  IF /\ At(s, i, <<"Downloading", " ", "item", " ">>)
           /\ b > a
           /\ At(s, b, <<" ", "of", " ">>)
           /\ d > c
        THEN <<SubSeq(s, a, b - 1), SubSeq(s, c, d - 1)>>
        ELSE <<>>

\* Regex::captures for that regex: the leftmost match.
ItemCaptures(s) ==
    LET starts == {i \in 1..Len(s) : ItemMatchAt(s, i) # <<>>}
    IN  IF starts = {} THEN None ELSE Some(ItemMatchAt(s, Min(starts)))

\* NumberAt for the regex (\d+)%, without the decimals.
NumberAt_DigitsOnly(s, i) ==
    IF ~IsDigit(s[i]) THEN 0
    ELSE IF At(s, DigitsEnd(s, i), <<"%">>) THEN DigitsEnd(s, i) ELSE 0

\* A match of (\d+\.?\d*)% that starts at i: the position of its "%", or 0.
\* The greedy \d+ takes the whole run of digits; giving digits back to \d*
\* ends at the same place.
NumberAt(s, i) ==
    IF ~IsDigit(s[i]) THEN 0
    ELSE LET e1 == DigitsEnd(s, i)
             e2 == DigitsEnd(s, e1 + 1)
         IN  IF At(s, e1, <<"%">>) THEN e1
             ELSE IF At(s, e1, <<".">>) /\ At(s, e2, <<"%">>) THEN e2
             ELSE 0

\* (?:word\s+(\S+))? tried at position q: the optional group matches there
\* or matches the empty string; `next` is where the match goes on.
OptionalGroup(s, q, word) ==
    LET a == SpacesEnd(s, q + 1)
        b == NonSpaceEnd(s, a)
    IN  IF At(s, q, <<word>>) /\ a > q + 1 /\ b > a
        THEN [capture |-> Some(SubSeq(s, a, b - 1)), next |-> b]
        ELSE [capture |-> None, next |-> q]

\* Option<String>::unwrap_or_default: "" is the empty text.
UnwrapOrDefault(o) == IF o = None THEN <<>> ELSE o[1]

\* parse_progress (lib.rs:248-272).  The regex
\* (\d+\.?\d*)%.*?(?:at\s+(\S+))?.*?(?:ETA\s+(\S+))? is searched leftmost
\* first: each lazy .*? prefers the empty match and each optional group may
\* match the empty string, so once "%" is matched the groups are tried right
\* where the match stands and nowhere further on.
parse_progress(line) ==
    LET caps == IF Contains(line, <<"Downloading", " ", "item">>)
                THEN ItemCaptures(line) ELSE None
        playlist_index == IF caps = None THEN None ELSE ParseU32(caps[1][1])
        playlist_count == IF caps = None THEN None ELSE ParseU32(caps[1][2])
        starts == {i \in 1..Len(line) : NumberAt(line, i) # 0}
    IN  IF /\ Contains(line, <<"[download]">>)
           /\ Contains(line, <<"%">>)
           /\ starts # {}
        THEN LET i == Min(starts)
                 p == NumberAt(line, i)
                 rate == OptionalGroup(line, p + 1, "at")
                 time == OptionalGroup(line, rate.next, "ETA")
             IN  Some([percent |-> ParseF64(SubSeq(line, i, p - 1)),
                       speed |-> UnwrapOrDefault(rate.capture),
                       eta |-> UnwrapOrDefault(time.capture),
                       playlist_index |-> playlist_index,
                       playlist_count |-> playlist_count])
        ELSE None

\* lib.rs:393-398: the text between the last "/" of the line and the last
\* "." after it becomes the title; without them the title stays.
ExtractTitle(line, title) ==
    LET slashes == {i \in 1..Len(line) : line[i] = "/"}
        filename == SubSeq(line, Max(slashes) + 1, Len(line))
        dots == {i \in 1..Len(filename) : filename[i] = "."}
    IN  IF slashes = {} \/ dots = {} THEN title
        ELSE Some(SubSeq(filename, 1, Max(dots) - 1))

(***************************************************************************)
(* The lines fed to a supervisor loop                                      *)
(***************************************************************************)

\* "[download]  P% of 10.00MiB at 1.20MiB/s ETA 00:05" for a percentage P
\* given by its lexemes.
ProgressLine(p) ==
    <<"[download]", " ", " ">> \o p \o
    <<"%", " ", "of", " ", "1", "0", ".", "0", "0", "MiB", " ",
      "at", " ", "1", ".", "2", "0", "MiB", "/", "s", " ",
      "ETA", " ", "0", "0", ":", "0", "5">>

\* "[download] Downloading item N of 12".
ItemLine(n) ==
    <<"[download]", " ", "Downloading", " ", "item", " ">> \o n \o
    <<" ", "of", " ", "1", "2">>

\* "[download] Destination: /tmp/Clip.mp4" and
\* "[ExtractAudio] Destination: /tmp/Song.mp3".
DestinationLine ==
    <<"[download]", " ", "Destination:", " ",
      "/", "tmp", "/", "Clip", ".", "mp4">>
ExtractAudioLine ==
    <<"[ExtractAudio]", " ", "Destination:", " ",
      "/", "tmp", "/", "Song", ".", "mp3">>

\* The lines a child may write, by name.
FeedLines ==
    { "progress 42.5", "progress 10.0", "progress 150.0",
      "item 3", "item 4294967296", "item 2 with 7%",
      "destination", "extract audio", "warning", "not utf-8" }

\* The bytes of a line.
Bytes(name) ==
    CASE name = "progress 42.5" -> ProgressLine(<<"4", "2", ".", "5">>)
      [] name = "progress 10.0" -> ProgressLine(<<"1", "0", ".", "0">>)
      [] name = "progress 150.0" -> ProgressLine(<<"1", "5", "0", ".", "0">>)
      [] name = "item 3" -> ItemLine(<<"3">>)
      [] name = "item 4294967296" ->
            ItemLine(<<"4", "2", "9", "4", "9", "6", "7", "2", "9", "6">>)
      [] name = "item 2 with 7%" -> ItemLine(<<"2">>) \o <<":", " ", "7", "%">>
      [] name = "destination" -> DestinationLine
      [] name = "extract audio" -> ExtractAudioLine
      [] name = "warning" ->
            <<"WARNING:", " ", "unable", " ", "to", " ", "extract">>
      [] name = "not utf-8" -> <<"[download]", " ", "<0xFF>", "%">>

\* The String the loop on path p handles for a line (lib.rs:378, 475).
Text(p, name) ==
    IF p = "sidecar" THEN FromUtf8Lossy(Bytes(name)) ELSE Bytes(name)

\* Lines a loop handles before it is left alone.
MaxFeed == 3

(***************************************************************************)
(* One supervisor loop, line by line                                       *)
(***************************************************************************)

\* The request id the events carry.
DownloadId == "id-1"

LoopPaths == {"sidecar", "tokio"}

\* What the loop on path p computes from a line alone (lib.rs:381-401,
\* 483-503), tabulated once for the lines of FeedLines: the captures of the
\* playlist regex, the title the line names, the result of parse_progress.
LineFacts ==
    [p \in LoopPaths |-> [name \in FeedLines |->
        LET line == Text(p, name)
            named == \/ Contains(line, <<"[download]", " ", "Destination:">>)
                     \/ p = "sidecar" /\ Contains(line, <<"[ExtractAudio]">>)
        IN  [caps |-> IF Contains(line, <<"Downloading", " ", "item">>)
                      THEN ItemCaptures(line) ELSE None,
             title |-> IF named THEN ExtractTitle(line, None) ELSE None,
             parsed |-> parse_progress(line)]]]

\* HandleStdout that emits an event for a line that holds a playlist
\* position or a title too.
HandleStdout_EveryDataLine(facts, title, index, count) ==
    LET caps == facts.caps
        index1 == IF caps # None THEN ParseU32(caps[1][1]) ELSE index
        count1 == IF caps # None THEN ParseU32(caps[1][2]) ELSE count
        named == facts.title
        title1 == IF named # None THEN named ELSE title
        parsed == facts.parsed
    IN  [title |-> title1, index |-> index1, count |-> count1,
         event |-> IF parsed = None /\ caps = None /\ named = None THEN None
                   ELSE Some([id |-> DownloadId,
                              percent |-> IF parsed = None THEN 0
                                          ELSE parsed[1].percent,
                              speed |-> <<>>,
                              eta |-> <<>>,
                              status |-> "downloading",
                              title |-> title1,
                              playlist_index |-> index1,
                              playlist_count |-> count1])]

\* HandleStdout whose events carry only what their own line holds.
HandleStdout_OwnLineOnly(facts, title, index, count) ==
    LET caps == facts.caps
        parsed == facts.parsed
    IN  [title |-> facts.title,
         index |-> IF caps # None THEN ParseU32(caps[1][1]) ELSE None,
         count |-> IF caps # None THEN ParseU32(caps[1][2]) ELSE None,
         event |-> IF parsed = None THEN None
                   ELSE Some([id |-> DownloadId,
                              percent |-> parsed[1].percent,
                              speed |-> parsed[1].speed,
                              eta |-> parsed[1].eta,
                              status |-> "downloading",
                              title |-> facts.title,
                              playlist_index |-> parsed[1].playlist_index,
                              playlist_count |-> parsed[1].playlist_count])]

\* lib.rs:380-416 (sidecar) and 482-518 (tokio): what a stdout line with
\* these facts does to the three locals, and the event it emits if any.
HandleStdout(facts, title, index, count) ==
    LET caps == facts.caps
        index1 == IF caps # None THEN ParseU32(caps[1][1]) ELSE index
        count1 == IF caps # None THEN ParseU32(caps[1][2]) ELSE count
        named == facts.title
        title1 == IF named # None THEN named ELSE title
        parsed == facts.parsed
        index2 == IF parsed # None /\ parsed[1].playlist_index # None
                  THEN parsed[1].playlist_index ELSE index1
        count2 == IF parsed # None /\ parsed[1].playlist_count # None
                  THEN parsed[1].playlist_count ELSE count1
    IN  [title |-> title1, index |-> index2, count |-> count2,
         event |-> IF parsed = None THEN None
                   ELSE Some([id |-> DownloadId,
                              percent |-> parsed[1].percent,
                              speed |-> parsed[1].speed,
                              eta |-> parsed[1].eta,
                              status |-> "downloading",
                              title |-> title1,
                              playlist_index |-> index2,
                              playlist_count |-> count2])]

\* The event of lib.rs:428-438 and 528-538.
FinishedEvent ==
    [id |-> DownloadId, percent |-> 10000, speed |-> <<>>, eta |-> <<>>,
     status |-> "finished", title |-> current_title,
     playlist_index |-> current_index, playlist_count |-> total_count]

\* A loop right after its process was started (lib.rs:364-366, 471-473).
LoopInit ==
    /\ CommandsIdle
    /\ ParseOff
    /\ TranscriptOff
    /\ SubtitleOff
    /\ SummaryOff
    /\ PromptOff
    /\ ArgsOff
    /\ DatabaseOff
    /\ loopPc = "loop"
    /\ loopPath \in LoopPaths
    /\ fedLines = <<>>
    /\ current_title = None
    /\ current_index = None
    /\ total_count = None
    /\ progressEvents = <<>>
    /\ emittedAfter = <<>>
    /\ loopRet = 0
    /\ lastInput = [event |-> "none", flag |-> FALSE, code |-> "code0"]

\* app.emit("download-progress", e) (lib.rs:415, 438, 517, 538).
EmitEvent(e) ==
    /\ progressEvents' = Append(progressEvents, e)
    /\ emittedAfter' = Append(emittedAfter, Len(fedLines'))

NoEvent == UNCHANGED <<progressEvents, emittedAfter>>

LoopReturn(line) ==
    /\ loopPc' = "done"
    /\ loopRet' = line

Received(event, flag, code) ==
    lastInput' = [event |-> event, flag |-> flag, code |-> code]

LocalsUnchanged == UNCHANGED <<current_title, current_index, total_count>>

LoopElsewhere ==
    UNCHANGED <<cvars, pvars, tvars, uvars, avars, nvars, loopPath>>

\* LoopStdout with the test of the flag after the line was handled: the
\* line is classified and its event emitted, then the loop is left.
LoopStdout_CheckAfterEmit(name, flag) ==
    /\ loopPc = "loop"
    /\ Len(fedLines) < MaxFeed
    /\ IF loopPath = "tokio" /\ ~IsUtf8(Bytes(name))
       THEN /\ loopPc' = "wait"
            /\ Received("read_error", FALSE, "code0")
            /\ LocalsUnchanged
            /\ UNCHANGED <<fedLines, loopRet>> /\ NoEvent
       ELSE LET r == HandleStdout(LineFacts[loopPath][name], current_title,
                                  current_index, total_count)
            IN  /\ fedLines' = Append(fedLines, name)
                /\ current_title' = r.title
                /\ current_index' = r.index
                /\ total_count' = r.count
                /\ IF r.event = None THEN NoEvent ELSE EmitEvent(r.event[1])
                /\ Received("stdout", flag, "code0")
                /\ IF flag
                   THEN LoopReturn(IF loopPath = "sidecar" THEN 373 ELSE 479)
                   ELSE UNCHANGED <<loopPc, loopRet>>
    /\ LoopElsewhere

\* LoopStdout that returns an error for a line that holds no playlist
\* position, no title and no progress.
LoopStdout_RejectsUnknown(name, flag) ==
    /\ loopPc = "loop"
    /\ Len(fedLines) < MaxFeed
    /\ LET r == HandleStdout(LineFacts[loopPath][name], current_title,
                             current_index, total_count)
           facts == LineFacts[loopPath][name]
       IN  /\ fedLines' = Append(fedLines, name)
           /\ current_title' = r.title
           /\ current_index' = r.index
           /\ total_count' = r.count
           /\ IF r.event = None THEN NoEvent ELSE EmitEvent(r.event[1])
           /\ Received("stdout", FALSE, "code0")
           /\ IF facts.caps = None /\ facts.title = None /\ facts.parsed = None
              THEN LoopReturn(420)
              ELSE UNCHANGED <<loopPc, loopRet>>
    /\ LoopElsewhere

\* A line of stdout arrives; `flag` is what the load at the loop's head
\* reads (lib.rs:370, 476).  The tokio reader fails on bytes that are not
\* UTF-8 and the while-let ends (lib.rs:475).
LoopStdout(name, flag) ==
    /\ loopPc = "loop"
    /\ Len(fedLines) < MaxFeed
    /\ IF loopPath = "tokio" /\ ~IsUtf8(Bytes(name))
       THEN /\ loopPc' = "wait"
            /\ Received("read_error", FALSE, "code0")
            /\ LocalsUnchanged
            /\ UNCHANGED <<fedLines, loopRet>> /\ NoEvent
       ELSE IF flag
       THEN /\ LoopReturn(IF loopPath = "sidecar" THEN 373 ELSE 479)
            /\ Received("stdout", TRUE, "code0")
            /\ LocalsUnchanged
            /\ UNCHANGED fedLines /\ NoEvent
       ELSE LET r == HandleStdout(LineFacts[loopPath][name], current_title,
                                  current_index, total_count)
            IN  /\ fedLines' = Append(fedLines, name)
                /\ current_title' = r.title
                /\ current_index' = r.index
                /\ total_count' = r.count
                /\ IF r.event = None THEN NoEvent ELSE EmitEvent(r.event[1])
                /\ Received("stdout", FALSE, "code0")
                /\ UNCHANGED <<loopPc, loopRet>>
    /\ LoopElsewhere

\* CommandEvent::Stderr (lib.rs:418), after the check at the loop's head.
LoopStderr(flag) ==
    /\ loopPc = "loop"
    /\ loopPath = "sidecar"
    /\ IF flag THEN LoopReturn(373) ELSE UNCHANGED <<loopPc, loopRet>>
    /\ Received("stderr", flag, "code0")
    /\ LocalsUnchanged
    /\ UNCHANGED fedLines /\ NoEvent
    /\ LoopElsewhere

\* CommandEvent::Error (lib.rs:419-421).
LoopError(flag) ==
    /\ loopPc = "loop"
    /\ loopPath = "sidecar"
    /\ LoopReturn(IF flag THEN 373 ELSE 420)
    /\ Received("error", flag, "code0")
    /\ LocalsUnchanged
    /\ UNCHANGED fedLines /\ NoEvent
    /\ LoopElsewhere

\* CommandEvent::Terminated (lib.rs:422-443); the flag is loaded at the
\* loop's head and again at line 423.
LoopTerminated(code, flag370, flag423) ==
    /\ loopPc = "loop"
    /\ loopPath = "sidecar"
    /\ Received("terminated", flag370 \/ flag423, code)
    /\ UNCHANGED fedLines
    /\ IF flag370 THEN LoopReturn(373) /\ NoEvent
       ELSE IF flag423 THEN LoopReturn(424) /\ NoEvent
       ELSE IF code = "code0"
       THEN /\ EmitEvent(FinishedEvent)
            /\ LoopReturn(439)
       ELSE LoopReturn(441) /\ NoEvent
    /\ LocalsUnchanged
    /\ LoopElsewhere

\* rx.recv() yields None (lib.rs:368, 447).
LoopClosed ==
    /\ loopPc = "loop"
    /\ loopPath = "sidecar"
    /\ LoopReturn(447)
    /\ Received("closed", FALSE, "code0")
    /\ LocalsUnchanged
    /\ UNCHANGED fedLines /\ NoEvent
    /\ LoopElsewhere

\* next_line() yields Ok(None) (lib.rs:475).
LoopEndOfOutput ==
    /\ loopPc = "loop"
    /\ loopPath = "tokio"
    /\ loopPc' = "wait"
    /\ Received("end_of_output", FALSE, "code0")
    /\ LocalsUnchanged
    /\ UNCHANGED <<fedLines, loopRet>> /\ NoEvent
    /\ LoopElsewhere

\* process.wait() returns a status (lib.rs:521-542).
LoopWait(code, flag) ==
    /\ loopPc = "wait"
    /\ Received("wait", flag, code)
    /\ UNCHANGED fedLines
    /\ IF flag THEN LoopReturn(524) /\ NoEvent
       ELSE IF code = "code0"
       THEN /\ EmitEvent(FinishedEvent)
            /\ LoopReturn(539)
       ELSE LoopReturn(541) /\ NoEvent
    /\ LocalsUnchanged
    /\ LoopElsewhere

\* process.wait() fails (lib.rs:521).
LoopWaitError ==
    /\ loopPc = "wait"
    /\ LoopReturn(521)
    /\ Received("wait_error", FALSE, "code0")
    /\ LocalsUnchanged
    /\ UNCHANGED fedLines /\ NoEvent
    /\ LoopElsewhere

LoopNext ==
    \/ \E name \in FeedLines, flag \in BOOLEAN : LoopStdout(name, flag)
    \/ \E flag \in BOOLEAN : LoopStderr(flag)
    \/ \E flag \in BOOLEAN : LoopError(flag)
    \/ \E code \in ExitCodes, flag370, flag423 \in BOOLEAN :
          LoopTerminated(code, flag370, flag423)
    \/ LoopClosed
    \/ LoopEndOfOutput
    \/ \E code \in ExitCodes, flag \in BOOLEAN : LoopWait(code, flag)
    \/ LoopWaitError

LoopSpec == LoopInit /\ [][LoopNext]_vars

(***************************************************************************)
(* One call of parse_progress                                              *)
(***************************************************************************)

\* What may stand before the number, the number, and what may follow it.
Prefixes ==
    { <<>>,
      <<"[download]", " ">>,
      <<"[download]", " ", " ">>,
      <<"[ExtractAudio]", " ">> }

\* text: the lexemes; wellFormed: digits, or digits "." digits;
\* numberBefore: a number stands right where the "%" follows, whatever
\* stands before it; value: what the well-formed text denotes, in hundredths.
Numbers ==
    { [text |-> <<"4", "2", ".", "5">>,
       wellFormed |-> TRUE, numberBefore |-> TRUE, value |-> 4250],
      [text |-> <<"7">>,
       wellFormed |-> TRUE, numberBefore |-> TRUE, value |-> 700],
      [text |-> <<"0", ".", "0">>,
       wellFormed |-> TRUE, numberBefore |-> TRUE, value |-> 0],
      [text |-> <<"1", "0", "0">>,
       wellFormed |-> TRUE, numberBefore |-> TRUE, value |-> 10000],
      [text |-> <<"1", "0", "0", ".", "1">>,
       wellFormed |-> TRUE, numberBefore |-> TRUE, value |-> 10010],
      [text |-> <<"1", "5", "0", ".", "0">>,
       wellFormed |-> TRUE, numberBefore |-> TRUE, value |-> 15000],
      [text |-> <<"1", ".", "2", ".", "3">>,
       wellFormed |-> FALSE, numberBefore |-> TRUE, value |-> 0],
      [text |-> <<"5", ".">>,
       wellFormed |-> FALSE, numberBefore |-> TRUE, value |-> 0],
      [text |-> <<"N", "/", "A">>,
       wellFormed |-> FALSE, numberBefore |-> FALSE, value |-> 0],
      [text |-> <<"4", "2", ".", "5", " ">>,
       wellFormed |-> FALSE, numberBefore |-> FALSE, value |-> 0],
      [text |-> <<".">>,
       wellFormed |-> FALSE, numberBefore |-> FALSE, value |-> 0],
      [text |-> <<>>,
       wellFormed |-> FALSE, numberBefore |-> FALSE, value |-> 0] }

Tails ==
    { <<>>,
      <<" ", "of", " ", "1", "0", ".", "0", "0", "MiB", " ",
        "at", " ", "1", ".", "2", "0", "MiB", "/", "s", " ",
        "ETA", " ", "0", "0", ":", "0", "5">>,
      <<" ", "of", " ", "1", "0", ".", "0", "0", "MiB", " ",
        "in", " ", "0", "0", ":", "0", "8">>,
      <<"at", " ", "1", ".", "2", "0", "MiB", "/", "s", " ",
        "ETA", " ", "0", "0", ":", "0", "5">>,
      <<"at", " ", "1", ".", "2", "0", "MiB", "/", "s",
        "ETA", " ", "0", "0", ":", "0", "5">>,
      <<"ETA", " ", " ", "0", "0", ":", "0", "5">>,
      <<" ", "at", " ">> }

ParseInputs ==
    [prefix : Prefixes, number : Numbers, percentSign : BOOLEAN, tail : Tails]

\* The line the parts make.
LineOf(parts) ==
    parts.prefix \o parts.number.text
       \o (IF parts.percentSign THEN <<"%">> ELSE <<>>) \o parts.tail

ParseInit ==
    /\ CommandsIdle
    /\ LoopOff
    /\ TranscriptOff
    /\ SubtitleOff
    /\ SummaryOff
    /\ PromptOff
    /\ ArgsOff
    /\ DatabaseOff
    /\ parseLine \in ParseInputs
    /\ parseResult = <<>>

\* The call and its return.
ParseCall ==
    /\ parseResult = <<>>
    /\ parseResult' = <<parse_progress(LineOf(parseLine))>>
    /\ UNCHANGED <<cvars, lvars, tvars, uvars, avars, nvars, parseLine>>

ParseNext == ParseCall

ParseSpec == ParseInit /\ [][ParseNext]_vars

(***************************************************************************)
(* get_video_transcript                                                    *)
(***************************************************************************)

\* What parse_subtitle_file makes of a caption file: nothing but blanks, up
\* to ten words, more.
Contents == {"blank", "short", "long"}

\* What one run of yt-dlp may write: for each name a content, or "none"
\* for a language the video has no captions in.
Writings == [CaptionFiles -> Contents \cup {"none"}]

\* The files present in the directory.
Present(files) == {f \in CaptionFiles : files[f] # Absent}

\* Of what request r wrote, what is there: the directory and the files.
Remains(r, dir, files) ==
    (IF dir THEN {"youwee_subs"} ELSE {})
       \cup {f \in CaptionFiles : files[f].by = r}

TranscriptReturn(r, line) ==
    /\ transcriptPc' = [transcriptPc EXCEPT ![r] = "done"]
    /\ transcriptRet' = [transcriptRet EXCEPT ![r] = line]

TranscriptElsewhere ==
    UNCHANGED <<cvars, lvars, pvars, uvars, avars, nvars>>

\* The command is invoked (video.rs:11).
GetVideoTranscript(r) ==
    /\ transcriptPc[r] = "idle"
    /\ transcriptPc' = [transcriptPc EXCEPT ![r] = "first"]
    /\ UNCHANGED <<tempDir, staged, transcriptRet, transcriptFrom, leftBehind,
                   toolRuns, transcriptPick>>
    /\ TranscriptElsewhere

\* video.rs:25-35: the run that prints the subtitle tables, which writes no
\* file; `found`: its output holds a text that is not blank.
FirstAttempt(r, found) ==
    /\ transcriptPc[r] = "first"
    /\ IF found
       THEN /\ TranscriptReturn(r, 32)
            /\ transcriptFrom' = [transcriptFrom EXCEPT ![r] = "output"]
       ELSE /\ transcriptPc' = [transcriptPc EXCEPT ![r] = "create_dir"]
            /\ UNCHANGED <<transcriptRet, transcriptFrom>>
    /\ toolRuns' = [toolRuns EXCEPT ![r] = Append(@, "--print subtitles")]
    /\ UNCHANGED <<tempDir, staged, leftBehind, transcriptPick>>
    /\ TranscriptElsewhere

\* video.rs:38-39: create_dir_all(<temp>/youwee_subs).
CreateDir(r) ==
    /\ transcriptPc[r] = "create_dir"
    /\ transcriptPc' = [transcriptPc EXCEPT ![r] = "fetch"]
    /\ tempDir' = TRUE
    /\ UNCHANGED <<staged, transcriptRet, transcriptFrom, leftBehind,
                   toolRuns, transcriptPick>>
    /\ TranscriptElsewhere

\* video.rs:44-55: yt-dlp writes the caption files it finds to
\* <temp>/youwee_subs/transcript.<lang>.<ext>, making the directory if it
\* is gone and replacing files of the same name; its result is dropped.
FetchCaptions(r, written) ==
    /\ transcriptPc[r] = "fetch"
    /\ transcriptPc' = [transcriptPc EXCEPT ![r] = "scan"]
    /\ staged' = [f \in CaptionFiles |->
                     IF written[f] # "none"
                     THEN [by |-> r, text |-> written[f]]
                     ELSE staged[f]]
    /\ tempDir' = (tempDir \/ \E f \in CaptionFiles : written[f] # "none")
    /\ toolRuns' = [toolRuns EXCEPT ![r] = Append(@, "--write-sub -o")]
    /\ UNCHANGED <<transcriptRet, transcriptFrom, leftBehind, transcriptPick>>
    /\ TranscriptElsewhere

\* video.rs:58-73: the next entry of read_dir, in whatever order the
\* directory gives; the file is read, parsed and removed, and its text is
\* returned unless it is blank.
ScanEntry(r, f) ==
    /\ transcriptPc[r] = "scan"
    /\ tempDir
    /\ f \in Present(staged)
    /\ staged' = [staged EXCEPT ![f] = Absent]
    /\ IF staged[f].text # "blank"
       THEN /\ TranscriptReturn(r, 68)
            /\ transcriptFrom' = [transcriptFrom EXCEPT ![r] = staged[f].by]
            /\ leftBehind' = [leftBehind EXCEPT ![r] = Remains(r, tempDir, staged')]
            /\ transcriptPick' = [transcriptPick EXCEPT ![r] =
                  [file |-> f, text |-> staged[f].text,
                   passedOver |-> {<<g, staged[g].text>> : g \in Present(staged')}]]
       ELSE UNCHANGED <<transcriptPc, transcriptRet, transcriptFrom, leftBehind,
                        transcriptPick>>
    /\ UNCHANGED <<tempDir, toolRuns>>
    /\ TranscriptElsewhere

\* video.rs:74-79: read_dir has no further entry, or failed; remove_dir_all
\* and the "No transcript available" error.
ScanDone(r) ==
    /\ transcriptPc[r] = "scan"
    /\ Present(staged) = {} \/ ~tempDir
    /\ tempDir' = FALSE
    /\ staged' = [f \in CaptionFiles |-> Absent]
    /\ TranscriptReturn(r, 79)
    /\ leftBehind' = [leftBehind EXCEPT ![r] = Remains(r, tempDir', staged')]
    /\ UNCHANGED <<transcriptFrom, toolRuns, transcriptPick>>
    /\ TranscriptElsewhere

TranscriptNext ==
    \/ \E r \in Requests : GetVideoTranscript(r)
    \/ \E r \in Requests, found \in BOOLEAN : FirstAttempt(r, found)
    \/ \E r \in Requests : CreateDir(r)
    \/ \E r \in Requests, written \in Writings : FetchCaptions(r, written)
    \/ \E r \in Requests, f \in CaptionFiles : ScanEntry(r, f)
    \/ \E r \in Requests : ScanDone(r)

TranscriptSpec == Init /\ [][TranscriptNext]_vars

(***************************************************************************)
(* parse_subtitle_file                                                     *)
(*                                                                         *)
(* A caption text is a sequence of lexemes as above, with "<", ">" and     *)
(* "-" as single characters and "<LF>" for the line feed.                  *)
(***************************************************************************)

\* str::lines: the pieces between line feeds; a last empty piece is none.
RECURSIVE StrLines(_)
StrLines(text) ==
    LET feeds == {i \in 1..Len(text) : text[i] = "<LF>"}
    IN  IF text = <<>> THEN <<>>
        ELSE IF feeds = {} THEN <<text>>
        ELSE <<SubSeq(text, 1, Min(feeds) - 1)>>
                \o StrLines(SubSeq(text, Min(feeds) + 1, Len(text)))

\* str::trim.
StrTrim(s) ==
    LET inked == {i \in 1..Len(s) : ~IsSpace(s[i])}
    IN  IF inked = {} THEN <<>> ELSE SubSeq(s, Min(inked), Max(inked))

\* Regex <[^>]+> with replace_all(line, "") (video.rs:146-148): the
\* leftmost "<" that has a ">" further on with something in between starts
\* a match, which ends at the first ">" after it; the search goes on behind.
RECURSIVE RemoveTags(_)
RemoveTags(s) ==
    LET closes(i) == {j \in (i + 1)..Len(s) : s[j] = ">"}
        starts == {i \in 1..Len(s) :
                      /\ s[i] = "<"
                      /\ closes(i) # {}
                      /\ Min(closes(i)) > i + 1}
    IN  IF starts = {} THEN s
        ELSE SubSeq(s, 1, Min(starts) - 1)
                \o RemoveTags(SubSeq(s, Min(closes(Min(starts))) + 1, Len(s)))

\* video.rs:121-143: the trimmed line is left out as empty, header, note,
\* time range, cue number or styling.
SkippedLine(line) ==
    \/ line = <<>>
    \/ At(line, 1, <<"WEBVTT">>) \/ At(line, 1, <<"NOTE">>)
    \/ Contains(line, <<"-", "-", ">">>)
    \/ \A i \in 1..Len(line) : IsDigit(line[i])
    \/ At(line, 1, <<"align", ":">>) \/ At(line, 1, <<"position", ":">>)
    \/ Contains(line, <<":", ":">>)

\* video.rs:146-150.
CleanLine(line) == StrTrim(RemoveTags(line))

\* PushLine that keeps a line equal to the one before it.
PushLine_KeepsDuplicates(texts, raw) ==
    IF SkippedLine(StrTrim(raw)) \/ CleanLine(StrTrim(raw)) = <<>>
    THEN texts
    ELSE Append(texts, CleanLine(StrTrim(raw)))

\* The body of the loop (video.rs:118-154) for one line.
PushLine(texts, raw) ==
    IF SkippedLine(StrTrim(raw)) THEN texts
    ELSE IF /\ CleanLine(StrTrim(raw)) # <<>>
            /\ ~(texts # <<>> /\ texts[Len(texts)] = CleanLine(StrTrim(raw)))
         THEN Append(texts, CleanLine(StrTrim(raw)))
         ELSE texts

\* `texts` after the loop over these lines (video.rs:115-155).
RECURSIVE Texts(_)
Texts(lines) ==
    IF lines = <<>> THEN <<>>
    ELSE PushLine(Texts(SubSeq(lines, 1, Len(lines) - 1)), lines[Len(lines)])

\* [String]::join(" ").
RECURSIVE JoinSpace(_)
JoinSpace(texts) ==
    IF texts = <<>> THEN <<>>
    ELSE IF Len(texts) = 1 THEN texts[1]
    ELSE texts[1] \o <<" ">> \o JoinSpace(Tail(texts))

\* parse_subtitle_file (video.rs:114-158).
parse_subtitle_file(content) == JoinSpace(Texts(StrLines(content)))

(***************************************************************************)
(* One call of parse_subtitle_file, and one on its result                  *)
(***************************************************************************)

\* A time-range line, "00:00:01.000 --> 00:00:02.000" shortened to minutes
\* and seconds, with the line feed that ends it.
TimeRange(a, b) ==
    <<"0", "0", ":", "0", a, " ", "-", "-", ">", " ", "0", "0", ":", "0", b,
      "<LF>">>

HelloWorldTagged ==
    <<"Hello", " ", "<", "i", ">", "world", "<", "/", "i", ">", "<LF>">>

\* The blocks a caption file is put together from, by name.
CaptionBlocks ==
    { "header", "cue 1 Hello <i>world</i>", "cue 2 Hello <i>world</i>",
      "srt 1 Hello world", "cue <b>12</b>", "cue a < b", "cue c > d",
      "styled Bye", "note" }

\* The text of a block, every line with its line feed.
BlockText(name) ==
    CASE name = "header" -> <<"WEBVTT", "<LF>", "<LF>">>
      [] name = "cue 1 Hello <i>world</i>" ->
            TimeRange("1", "2") \o HelloWorldTagged \o <<"<LF>">>
      [] name = "cue 2 Hello <i>world</i>" ->
            TimeRange("2", "3") \o HelloWorldTagged
      [] name = "srt 1 Hello world" ->
            <<"1", "<LF>",
              "0", "0", ":", "0", "1", ",", "0", " ", "-", "-", ">", " ",
              "0", "0", ":", "0", "2", ",", "0", "<LF>",
              "Hello", " ", "world", "<LF>", "<LF>">>
      [] name = "cue <b>12</b>" ->
            TimeRange("3", "4")
               \o <<"<", "b", ">", "1", "2", "<", "/", "b", ">", "<LF>">>
      [] name = "cue a < b" ->
            TimeRange("4", "5") \o <<"a", " ", "<", " ", "b", "<LF>">>
      [] name = "cue c > d" ->
            TimeRange("5", "6") \o <<"c", " ", ">", " ", "d", "<LF>">>
      [] name = "styled Bye" ->
            <<"align", ":", "start", " ", "position", ":", "0", "%", "<LF>",
              " ", " ", "Bye", " ", "<LF>">>
      [] name = "note" ->
            <<"NOTE", " ", "made", " ", "by", " ", "hand", "<LF>">>

\* Blocks a caption file holds at most.
MaxBlocks == 3

RECURSIVE BlockSeqs(_)
\* The sequences of at most n blocks.
BlockSeqs(n) ==
    IF n = 0 THEN {<<>>}
    ELSE BlockSeqs(n - 1)
            \cup {Append(q, b) : q \in {x \in BlockSeqs(n - 1) : Len(x) = n - 1},
                                 b \in CaptionBlocks}

RECURSIVE ContentOf(_)
\* The text of a file put together from these blocks.
ContentOf(blocks) ==
    IF blocks = <<>> THEN <<>>
    ELSE BlockText(blocks[1]) \o ContentOf(Tail(blocks))

SubtitleInit ==
    /\ CommandsIdle
    /\ LoopOff
    /\ ParseOff
    /\ TranscriptOff
    /\ SummaryOff
    /\ PromptOff
    /\ ArgsOff
    /\ DatabaseOff
    /\ captionContent \in BlockSeqs(MaxBlocks)
    /\ captionParsed = None
    /\ captionReparsed = None

SubtitleElsewhere ==
    UNCHANGED <<cvars, lvars, pvars, tvars, avars, nvars>>

\* The call and its return.
ParseSubtitleFile ==
    /\ captionParsed = None
    /\ captionParsed' = Some(parse_subtitle_file(ContentOf(captionContent)))
    /\ UNCHANGED <<captionContent, captionReparsed>>
    /\ SubtitleElsewhere

\* The returned String is handed to parse_subtitle_file once more.
ParseSubtitleFileAgain ==
    /\ captionParsed # None
    /\ captionReparsed = None
    /\ captionReparsed' = Some(parse_subtitle_file(captionParsed[1]))
    /\ UNCHANGED <<captionContent, captionParsed>>
    /\ SubtitleElsewhere

SubtitleNext ==
    \/ ParseSubtitleFile
    \/ ParseSubtitleFileAgain

SubtitleSpec == SubtitleInit /\ [][SubtitleNext]_vars

(***************************************************************************)
(* generate_summary and the three backends (services/ai.rs)                *)
(***************************************************************************)

\* The AIConfig argument, as far as generate_summary reads it: the provider;
\* no key, an empty one, one; the model; no endpoint, the usual one, one
\* with a slash at its end.
AIConfigs ==
    [provider : {"Gemini", "OpenAI", "Ollama"},
     api_key : {None, Some(""), Some("sk-1")},
     model : {"gemini-2.0-flash", "llama3.2"},
     ollama_url : {None, Some(<<"http://localhost:11434">>),
                   Some(<<"http://10.0.0.5:11434", "/">>)}]

\* The transcript argument: empty, blanks only, a text.
Transcripts == {<<>>, <<" ", " ">>, <<"Hello", " ", "world">>}

\* StatusCode::is_success.
IsSuccess(status) == status >= 200 /\ status <= 299

\* What send() ends in: a transport error, or the head of an answer with
\* its status, whose body is still to be read.  The body is no JSON, JSON
\* of another shape (an error object, say), JSON in the shape of one of the
\* three APIs, or its transfer breaks off.
Responses ==
    {[transport |-> "failed", status |-> 0, body |-> "none"]}
       \cup [transport : {"ok"},
             status : {200, 201, 404, 500},
             body : {"not json", "other json", "gemini json", "openai json",
                     "ollama json", "broken off"}]

\* str::trim_end_matches('/').
TrimEndSlash(url) ==
    LET kept == {i \in 1..Len(url) : url[i] # "/"}
    IN  IF kept = {} THEN <<>> ELSE SubSeq(url, 1, Max(kept))

\* The POST a backend sends (ai.rs:150-153 and 167-170, 224-228, 270 and
\* 281-284): where to, and the Authorization header if any.
PostOf(fn, config) ==
    CASE fn = "generate_with_gemini" ->
            [url |-> <<"https://generativelanguage.googleapis.com/v1beta/models/",
                       config.model, ":generateContent?key=",
                       config.api_key[1]>>,
             authorization |-> None]
      [] fn = "generate_with_openai" ->
            [url |-> <<"https://api.openai.com/v1/chat/completions">>,
             authorization |-> Some(<<"Bearer ", config.api_key[1]>>)]
      [] fn = "generate_with_ollama" ->
            [url |-> TrimEndSlash(IF config.ollama_url = None
                                  THEN <<"http://localhost:11434">>
                                  ELSE config.ollama_url[1])
                        \o <<"/api/generate">>,
             authorization |-> None]

\* The path each backend reads the text from (ai.rs:186-194, 244-250,
\* 300-303): Some(text) if the JSON has it as a string.
ExtractText(fn, body) ==
    IF \/ fn = "generate_with_gemini" /\ body = "gemini json"
       \/ fn = "generate_with_openai" /\ body = "openai json"
       \/ fn = "generate_with_ollama" /\ body = "ollama json"
    THEN Some(<<" ", "A", " ", "summary", " ">>)
    ELSE None

\* The provider name a backend puts into its result (ai.rs:198, 254, 307).
ProviderName(fn) ==
    CASE fn = "generate_with_gemini" -> "Gemini"
      [] fn = "generate_with_openai" -> "OpenAI"
      [] fn = "generate_with_ollama" -> "Ollama"

Err(kind, detail) == [ok |-> FALSE, error |-> kind, detail |-> detail]

\* generate_summary is called with a config and a transcript.
SummaryInit ==
    /\ CommandsIdle
    /\ LoopOff
    /\ ParseOff
    /\ TranscriptOff
    /\ SubtitleOff
    /\ PromptOff
    /\ ArgsOff
    /\ DatabaseOff
    /\ summaryPc = "called"
    /\ aiConfig \in AIConfigs
    /\ summaryTranscript \in Transcripts
    /\ backend = "none"
    /\ posts = <<>>
    /\ response = NoResponse
    /\ summaryRet = None

SummaryReturn(result) ==
    /\ summaryPc' = "done"
    /\ summaryRet' = Some(result)

SummaryElsewhere ==
    UNCHANGED <<cvars, lvars, pvars, tvars, uvars, nvars, aiConfig,
                summaryTranscript>>

\* CheckTranscript that rejects the empty transcript only, not one of blanks.
CheckTranscript_EmptyOnly ==
    /\ summaryPc = "called"
    /\ IF summaryTranscript = <<>>
       THEN SummaryReturn(Err("NoTranscript", None))
       ELSE /\ summaryPc' = "match"
            /\ UNCHANGED summaryRet
    /\ UNCHANGED <<backend, posts, response>>
    /\ SummaryElsewhere

\* ai.rs:317-319: transcript.trim().is_empty().
CheckTranscript ==
    /\ summaryPc = "called"
    /\ IF StrTrim(summaryTranscript) = <<>>
       THEN SummaryReturn(Err("NoTranscript", None))
       ELSE /\ summaryPc' = "match"
            /\ UNCHANGED summaryRet
    /\ UNCHANGED <<backend, posts, response>>
    /\ SummaryElsewhere

\* MatchProvider that asks every provider for a key.
MatchProvider_KeyForAll ==
    /\ summaryPc = "match"
    /\ IF aiConfig.api_key = None
       THEN /\ SummaryReturn(Err("NoApiKey", None))
            /\ UNCHANGED backend
       ELSE /\ backend' = (CASE aiConfig.provider = "Gemini" -> "generate_with_gemini"
                             [] aiConfig.provider = "OpenAI" -> "generate_with_openai"
                             [] aiConfig.provider = "Ollama" -> "generate_with_ollama")
            /\ summaryPc' = "send"
            /\ UNCHANGED summaryRet
    /\ UNCHANGED <<posts, response>>
    /\ SummaryElsewhere

\* ai.rs:321-334: the match on config.provider, up to the call of the
\* backend.
MatchProvider ==
    /\ summaryPc = "match"
    /\ IF aiConfig.provider \in {"Gemini", "OpenAI"} /\ aiConfig.api_key = None
       THEN /\ SummaryReturn(Err("NoApiKey", None))
            /\ UNCHANGED backend
       ELSE /\ backend' = (CASE aiConfig.provider = "Gemini" -> "generate_with_gemini"
                             [] aiConfig.provider = "OpenAI" -> "generate_with_openai"
                             [] aiConfig.provider = "Ollama" -> "generate_with_ollama")
            /\ summaryPc' = "send"
            /\ UNCHANGED summaryRet
    /\ UNCHANGED <<posts, response>>
    /\ SummaryElsewhere

\* ai.rs:167-173, 224-231, 281-287: the POST is sent; send() fails, or the
\* head of an answer arrives.
SendPost(answer) ==
    /\ summaryPc = "send"
    /\ posts' = Append(posts, PostOf(backend, aiConfig))
    /\ response' = answer
    /\ IF answer.transport = "failed"
       THEN SummaryReturn(Err("NetworkError", None))
       ELSE /\ summaryPc' = "status"
            /\ UNCHANGED summaryRet
    /\ UNCHANGED backend
    /\ SummaryElsewhere

\* CheckStatus that takes every answer for a success.
CheckStatus_Ignored ==
    /\ summaryPc = "status"
    /\ summaryPc' = "json"
    /\ UNCHANGED <<summaryRet, backend, posts, response>>
    /\ SummaryElsewhere

\* ai.rs:175-179, 233-237, 289-293: a status that is no success ends the
\* call with the status and the body, or "" for a body that cannot be read.
CheckStatus ==
    /\ summaryPc = "status"
    /\ IF ~IsSuccess(response.status)
       THEN SummaryReturn(Err("ApiError",
                [status |-> response.status,
                 text |-> IF response.body = "broken off" THEN "" ELSE response.body]))
       ELSE /\ summaryPc' = "json"
            /\ UNCHANGED summaryRet
    /\ UNCHANGED <<backend, posts, response>>
    /\ SummaryElsewhere

\* ai.rs:181-200, 239-256, 295-309: response.json() reads the body and
\* parses it, the text is looked up, trimmed and returned.
ReadJson ==
    /\ summaryPc = "json"
    /\ IF response.body \in {"broken off", "not json"}
       THEN SummaryReturn(Err("ParseError", None))
       ELSE IF ExtractText(backend, response.body) = None
       THEN SummaryReturn(Err("ParseError", None))
       ELSE SummaryReturn([ok |-> TRUE,
                           summary |-> StrTrim(ExtractText(backend, response.body)[1]),
                           provider |-> ProviderName(backend),
                           model |-> aiConfig.model])
    /\ UNCHANGED <<backend, posts, response>>
    /\ SummaryElsewhere

SummaryNext ==
    \/ CheckTranscript
    \/ MatchProvider
    \/ \E answer \in Responses : SendPost(answer)
    \/ CheckStatus
    \/ ReadJson

SummarySpec == SummaryInit /\ [][SummaryNext]_vars

(***************************************************************************)
(* build_prompt and the request bodies (services/ai.rs:95-165, 211-222,    *)
(* 267-279)                                                                *)
(*                                                                         *)
(* A String is a sequence of runs <<c, n>>: the character c, n times over. *)
(* A piece of fixed text is a run of one.                                  *)
(***************************************************************************)

\* Bytes of a character in UTF-8; every piece of fixed text is ASCII.
Utf8Len(c) == IF c = "e-acute" THEN 2 ELSE 1

\* str::len(): the length in bytes.
RECURSIVE StrLen(_)
StrLen(s) ==
    IF s = <<>> THEN 0
    ELSE Utf8Len(s[1][1]) * s[1][2] + StrLen(Tail(s))

\* &s[..n]: the first n bytes, or a panic where byte n lies inside a
\* character (n <= s.len() where it is used).
RECURSIVE SliceTo(_, _)
SliceTo(s, n) ==
    IF n = 0 THEN [panicked |-> FALSE, text |-> <<>>]
    ELSE LET c == s[1][1]
             w == Utf8Len(c)
         IN  IF w * s[1][2] <= n
             THEN LET rest == SliceTo(Tail(s), n - w * s[1][2])
                  IN  [panicked |-> rest.panicked,
                       text |-> <<s[1]>> \o rest.text]
             ELSE IF n % w = 0
             THEN [panicked |-> FALSE, text |-> <<<<c, n \div w>>>>]
             ELSE [panicked |-> TRUE, text |-> <<>>]

\* ai.rs:121.
max_len == 8000

\* ai.rs:96-137.  The result is the prompt, or a panic in the slice of
\* line 123.
build_prompt(transcript, style, language) ==
    LET style_instruction ==
            IF style = "Short"
            THEN "Provide a concise summary in 2-3 sentences."
            ELSE "Provide a detailed summary with bullet points covering the main topics and key takeaways."
        name == CASE language = "en" -> "English"
                  [] language = "vi" -> "Vietnamese"
                  [] language = "ja" -> "Japanese"
                  [] language = "ko" -> "Korean"
                  [] language = "zh" -> "Chinese"
                  [] language = "es" -> "Spanish"
                  [] language = "fr" -> "French"
                  [] language = "de" -> "German"
                  [] language = "pt" -> "Portuguese"
                  [] language = "ru" -> "Russian"
                  [] OTHER -> language
        language_instruction ==
            IF language = "auto"
            THEN <<<<"Respond in the same language as the transcript.", 1>>>>
            ELSE <<<<"Respond in ", 1>>, <<name, 1>>, <<".", 1>>>>
        cut == SliceTo(transcript, max_len)
        truncated ==
            IF StrLen(transcript) > max_len
            THEN cut.text \o <<<<"... [truncated]", 1>>>>
            ELSE transcript
    IN  [panicked |-> StrLen(transcript) > max_len /\ cut.panicked,
         text |-> <<<<"You are a helpful assistant that summarizes video content.", 1>>,
                    <<"<LF>", 2>>, <<style_instruction, 1>>, <<"<LF>", 1>>>>
                  \o language_instruction
                  \o <<<<"<LF>", 2>>, <<"Here is the video transcript:", 1>>,
                       <<"<LF>", 2>>>>
                  \o truncated
                  \o <<<<"<LF>", 2>>, <<"Summary:", 1>>>>]

\* RequestBody with the model named in the prompt of the backends whose
\* body carries the model.
RequestBody_ModelInPrompt(fn, model, prompt) ==
    CASE fn = "generate_with_gemini" ->
            [contents |-> <<[parts |-> <<[text |-> prompt]>>]>>,
             generationConfig |-> [temperature |-> "0.7",
                                   maxOutputTokens |-> 1024]]
      [] fn = "generate_with_openai" ->
            [model |-> model,
             messages |-> <<[role |-> "user",
                             content |-> <<<<model, 1>>>> \o prompt]>>,
             temperature |-> "0.7", max_tokens |-> 1024]
      [] fn = "generate_with_ollama" ->
            [model |-> model, prompt |-> <<<<model, 1>>>> \o prompt,
             stream |-> FALSE, options |-> [temperature |-> "0.7"]]

\* The JSON body a backend builds around the prompt (ai.rs:155-165,
\* 214-222, 272-279).
RequestBody(fn, model, prompt) ==
    CASE fn = "generate_with_gemini" ->
            [contents |-> <<[parts |-> <<[text |-> prompt]>>]>>,
             generationConfig |-> [temperature |-> "0.7",
                                   maxOutputTokens |-> 1024]]
      [] fn = "generate_with_openai" ->
            [model |-> model,
             messages |-> <<[role |-> "user", content |-> prompt]>>,
             temperature |-> "0.7", max_tokens |-> 1024]
      [] fn = "generate_with_ollama" ->
            [model |-> model, prompt |-> prompt, stream |-> FALSE,
             options |-> [temperature |-> "0.7"]]

\* Runs a transcript is made of at most.
MaxRuns == 2

\* The transcripts: runs of an ASCII letter and of a two-byte letter, of
\* lengths around the budget.
RECURSIVE RunSeqs(_)
RunSeqs(n) ==
    IF n = 0 THEN {<<>>}
    ELSE LET shorter == RunSeqs(n - 1)
         IN  shorter \cup
             {<<<<c, k>>>> \o s : c \in {"a", "e-acute"},
                                  k \in {1, 4000, 7999, 8001},
                                  s \in {t \in shorter : Len(t) = n - 1}}

\* The backends are about to be called on one transcript with one style
\* and one language, as generate_summary calls them (ai.rs:324, 328, 332).
PromptInit ==
    /\ CommandsIdle
    /\ LoopOff
    /\ ParseOff
    /\ TranscriptOff
    /\ SubtitleOff
    /\ SummaryOff
    /\ ArgsOff
    /\ DatabaseOff
    /\ promptArgs \in [transcript : RunSeqs(MaxRuns),
                       style : {"Short", "Detailed"},
                       language : {"auto", "vi", "tlh"}]
    /\ backendCalls = [c \in BackendCalls |-> NoCall]

\* A backend is called with what generate_summary hands it from a config
\* (ai.rs:140-165, 204-222, 260-279): it builds the prompt, then the body.
GenerateWith(c, fn, config) ==
    /\ backendCalls[c] = NoCall
    /\ ProviderName(fn) = config.provider
    /\ LET made == build_prompt(promptArgs.transcript, promptArgs.style,
                                promptArgs.language)
       IN  backendCalls' = [backendCalls EXCEPT ![c] =
               [fn |-> fn, model |-> config.model,
                panicked |-> made.panicked,
                body |-> IF made.panicked THEN None
                         ELSE Some(RequestBody(fn, config.model, made.text))]]
    /\ UNCHANGED <<cvars, lvars, pvars, tvars, uvars, avars, gvars, qvars,
                   promptArgs>>

PromptNext ==
    \E c \in BackendCalls,
       fn \in {"generate_with_gemini", "generate_with_openai",
               "generate_with_ollama"},
       config \in AIConfigs : GenerateWith(c, fn, config)

PromptSpec == PromptInit /\ [][PromptNext]_vars

(***************************************************************************)
(* build_format_string and the argument list of download_video             *)
(* (lib.rs:214-246, 305-352)                                               *)
(*                                                                         *)
(* A format-selection expression is a sequence of lexemes: a selector      *)
(* ("bestvideo", "bestaudio", "best"), a filter, "+" and "/"; a height     *)
(* filter is the three lexemes "[height<=", the number, "]".               *)
(***************************************************************************)

\* build_format_string whose "2k" has the ceiling of "4k".
build_format_string_2kAs4k(quality, format) ==
    IF quality = "audio" \/ format = "mp3" \/ format = "m4a" \/ format = "opus"
    THEN CASE format = "mp3" -> <<"bestaudio", "/", "best">>
           [] format = "m4a" ->
                 <<"bestaudio", "[ext=m4a]", "/", "bestaudio", "/", "best">>
           [] format = "opus" ->
                 <<"bestaudio", "[ext=webm]", "/", "bestaudio", "/", "best">>
           [] OTHER ->
                 <<"bestaudio", "[ext=m4a]", "/", "bestaudio", "/", "best">>
    ELSE LET height == CASE quality = "4k" -> Some("2160")
                         [] quality = "2k" -> Some("2160")
                         [] quality = "1080" -> Some("1080")
                         [] quality = "720" -> Some("720")
                         [] quality = "480" -> Some("480")
                         [] quality = "360" -> Some("360")
                         [] OTHER -> None
         IN  IF format = "mp4"
             THEN IF height # None
                  THEN <<"bestvideo", "[height<=", height[1], "]", "[ext=mp4]",
                         "+", "bestaudio", "[ext=m4a]", "/",
                         "bestvideo", "[height<=", height[1], "]",
                         "+", "bestaudio", "/",
                         "best", "[height<=", height[1], "]", "/", "best">>
                  ELSE <<"bestvideo", "[ext=mp4]", "+", "bestaudio",
                         "[ext=m4a]", "/", "bestvideo", "+", "bestaudio",
                         "/", "best">>
             ELSE IF height # None
             THEN <<"bestvideo", "[height<=", height[1], "]", "+",
                    "bestaudio", "/", "best", "[height<=", height[1], "]",
                    "/", "best">>
             ELSE <<"bestvideo", "+", "bestaudio", "/", "best">>

\* lib.rs:214-246.
build_format_string(quality, format) ==
    IF quality = "audio" \/ format = "mp3" \/ format = "m4a" \/ format = "opus"
    THEN CASE format = "mp3" -> <<"bestaudio", "/", "best">>
           [] format = "m4a" ->
                 <<"bestaudio", "[ext=m4a]", "/", "bestaudio", "/", "best">>
           [] format = "opus" ->
                 <<"bestaudio", "[ext=webm]", "/", "bestaudio", "/", "best">>
           [] OTHER ->
                 <<"bestaudio", "[ext=m4a]", "/", "bestaudio", "/", "best">>
    ELSE LET height == CASE quality = "4k" -> Some("2160")
                         [] quality = "2k" -> Some("1440")
                         [] quality = "1080" -> Some("1080")
                         [] quality = "720" -> Some("720")
                         [] quality = "480" -> Some("480")
                         [] quality = "360" -> Some("360")
                         [] OTHER -> None
         IN  IF format = "mp4"
             THEN IF height # None
                  THEN <<"bestvideo", "[height<=", height[1], "]", "[ext=mp4]",
                         "+", "bestaudio", "[ext=m4a]", "/",
                         "bestvideo", "[height<=", height[1], "]",
                         "+", "bestaudio", "/",
                         "best", "[height<=", height[1], "]", "/", "best">>
                  ELSE <<"bestvideo", "[ext=mp4]", "+", "bestaudio",
                         "[ext=m4a]", "/", "bestvideo", "+", "bestaudio",
                         "/", "best">>
             ELSE IF height # None
             THEN <<"bestvideo", "[height<=", height[1], "]", "+",
                    "bestaudio", "/", "best", "[height<=", height[1], "]",
                    "/", "best">>
             ELSE <<"bestvideo", "+", "bestaudio", "/", "best">>

\* The url and the output_path of the request that is followed.
Url == <<"https://youtu.be/x">>
OutputPath == <<"/home/u/Videos">>

\* ArgumentList that names the merge format for an audio request too.
ArgumentList_MergeAlways(req, format_string_) ==
    <<<<"--newline">>, <<"-f">>, format_string_, <<"-o">>,
      OutputPath \o <<"/%(title)s.%(ext)s">>>>
    \o (IF req.download_playlist THEN <<>> ELSE <<<<"--no-playlist">>>>)
    \o (IF req.format \in {"mp3", "m4a", "opus"} \/ req.quality = "audio"
        THEN <<<<"-x">>, <<"--audio-format">>,
               <<IF req.format \in {"mp3", "m4a", "opus"}
                 THEN req.format ELSE "mp3">>,
               <<"--audio-quality">>, <<"0">>>>
        ELSE <<>>)
    \o <<<<"--merge-output-format">>, <<req.format>>, Url>>

\* lib.rs:317-352: the vector `args`, each argument a sequence of lexemes.
ArgumentList(req, format_string_) ==
    LET is_audio_format ==
            \/ req.format = "mp3" \/ req.format = "m4a"
            \/ req.format = "opus" \/ req.quality = "audio"
    IN  <<<<"--newline">>, <<"-f">>, format_string_, <<"-o">>,
          OutputPath \o <<"/%(title)s.%(ext)s">>>>
        \o (IF ~req.download_playlist THEN <<<<"--no-playlist">>>> ELSE <<>>)
        \o (IF is_audio_format
            THEN <<<<"-x">>, <<"--audio-format">>,
                   <<CASE req.format = "mp3" -> "mp3"
                       [] req.format = "m4a" -> "m4a"
                       [] req.format = "opus" -> "opus"
                       [] OTHER -> "mp3">>,
                   <<"--audio-quality">>, <<"0">>>>
            ELSE <<<<"--merge-output-format">>, <<req.format>>>>)
        \o <<Url>>

\* download_video is invoked with a request.
ArgsInit ==
    /\ CommandsIdle
    /\ LoopOff
    /\ ParseOff
    /\ TranscriptOff
    /\ SubtitleOff
    /\ SummaryOff
    /\ PromptOff
    /\ DatabaseOff
    /\ argsPc = "called"
    /\ request \in [quality : {"audio", "360", "480", "720", "1080", "2k",
                               "4k", "best", "8k"},
                    format : {"mp4", "mkv", "webm", "mp3", "m4a", "opus"},
                    download_playlist : BOOLEAN]
    /\ format_string = <<>>
    /\ args = <<>>

\* lib.rs:314-352: the flag is reset, the expression and the argument list
\* are built; the spawn comes next.
DownloadVideoArgs ==
    /\ argsPc = "called"
    /\ argsPc' = "args"
    /\ cancelFlag' = FALSE
    /\ flagBy' = "none"
    /\ format_string' = build_format_string(request.quality, request.format)
    /\ args' = ArgumentList(request, format_string')
    /\ UNCHANGED <<dvars, issued, pending, svars, hvars, lvars, pvars, tvars,
                   uvars, avars, bvars, qvars, request>>

ArgsNext == DownloadVideoArgs

ArgsSpec == ArgsInit /\ [][ArgsNext]_vars

(***************************************************************************)
(* init_database and get_db (database/connection.rs)                       *)
(*                                                                         *)
(* Calls run on any thread: each statement that reads or writes the        *)
(* OnceLock is a step of its own.                                          *)
(***************************************************************************)

DbReturn(c, result) ==
    /\ dbPc' = [dbPc EXCEPT ![c] = "done"]
    /\ dbRet' = [dbRet EXCEPT ![c] = result]

DbElsewhere == UNCHANGED <<cvars, lvars, pvars, tvars, uvars, avars, bvars, gvars>>

\* connection.rs:11-14: the call; Ok(()) at once if the OnceLock is set.
InitDatabase(c) ==
    /\ dbPc[c] = "idle"
    /\ IF DB_CONNECTION # "unset"
       THEN DbReturn(c, "Ok")
       ELSE /\ dbPc' = [dbPc EXCEPT ![c] = "opening"]
            /\ UNCHANGED dbRet
    /\ UNCHANGED <<DB_CONNECTION, opened, getRet>>
    /\ DbElsewhere

\* connection.rs:16-91: the directory, Connection::open, the tables.  A
\* failure before or in the open returns without a connection; one of the
\* two CREATE TABLE returns and drops the connection that was opened.
OpenConnection(c, outcome) ==
    /\ dbPc[c] = "opening"
    /\ opened' = [opened EXCEPT ![c] =
                     IF outcome \in {"no app data directory",
                                     "create directory failed", "open failed"}
                     THEN "no"
                     ELSE IF DB_CONNECTION = "unset" THEN "while unset"
                     ELSE "while set"]
    /\ IF outcome = "ok"
       THEN /\ dbPc' = [dbPc EXCEPT ![c] = "setting"]
            /\ UNCHANGED dbRet
       ELSE DbReturn(c, "Err: " \o outcome)
    /\ UNCHANGED <<DB_CONNECTION, getRet>>
    /\ DbElsewhere

\* connection.rs:93-97: OnceLock::set; it fails if the cell was set since
\* the test of line 12, and the connection is dropped.
SetConnection(c) ==
    /\ dbPc[c] = "setting"
    /\ IF DB_CONNECTION = "unset"
       THEN /\ DB_CONNECTION' = c
            /\ DbReturn(c, "Ok")
       ELSE /\ DbReturn(c, "Err: Database already initialized")
            /\ UNCHANGED DB_CONNECTION
    /\ UNCHANGED <<opened, getRet>>
    /\ DbElsewhere

\* connection.rs:101-107: get_db.  An empty OnceLock gives the error; on a
\* set one the caller locks the mutex, which blocks while another caller
\* holds the guard.
GetDb(g) ==
    /\ getRet[g] = "none"
    /\ IF DB_CONNECTION = "unset"
       THEN getRet' = [getRet EXCEPT ![g] = "Err: Database not initialized"]
       ELSE /\ \A h \in GetCallers : getRet[h] # "guard"
            /\ getRet' = [getRet EXCEPT ![g] = "guard"]
    /\ UNCHANGED <<DB_CONNECTION, dbPc, opened, dbRet>>
    /\ DbElsewhere

\* The caller of get_db is done with the connection: the guard is dropped.
DropGuard(g) ==
    /\ getRet[g] = "guard"
    /\ getRet' = [getRet EXCEPT ![g] = "Ok"]
    /\ UNCHANGED <<DB_CONNECTION, dbPc, opened, dbRet>>
    /\ DbElsewhere

DbNext ==
    \/ \E c \in InitCallers : InitDatabase(c)
    \/ \E c \in InitCallers,
          outcome \in {"ok", "no app data directory",
                       "create directory failed", "open failed",
                       "create logs table failed",
                       "create history table failed"} :
          OpenConnection(c, outcome)
    \/ \E c \in InitCallers : SetConnection(c)
    \/ \E g \in GetCallers : GetDb(g)
    \/ \E g \in GetCallers : DropGuard(g)

DbSpec == Init /\ [][DbNext]_vars

(***************************************************************************)
(* Properties                                                              *)
(***************************************************************************)

Range(seq) == {seq[i] : i \in 1..Len(seq)}

TerminalStatuses == {"finished", "cancelled", "failed"}

\* C1: when the termination status of the child is known, the outcome is
\* Cancelled if the flag is read set, whatever the exit code, and failed if
\* the flag is read unset and the exit code is not 0; an event received at
\* the head of the sidecar loop with the flag set ends Cancelled as well.
C1_FlagFirstThenExitCode ==
    [][\A t \in Downloads :
          /\ (/\ pc[t] \in {"term_check", "tokio_wait"}
              /\ proc[t] = "exited"
              /\ pc'[t] = "done"
              /\ ret'[t] # 521)
             => /\ cancelFlag => Outcome(t)' = "cancelled"
                /\ (~cancelFlag /\ exitCode[t] # "code0")
                      => Outcome(t)' = "failed"
          /\ (pc[t] = "loop" /\ pc'[t] = "done" /\ cancelFlag /\ ret'[t] # 447)
             => Outcome(t)' = "cancelled"]_vars

\* C1 witness: on both paths a download ended Cancelled although its child
\* had exited with code 0.
C1_Witness ==
    \E t1, t2 \in Downloads :
        /\ ret[t1] = 424 /\ exitCode[t1] = "code0"
        /\ ret[t2] = 524 /\ exitCode[t2] = "code0"

\* C2: the command reports success only if its child has exited with
\* code 0.
C2_SuccessOnlyAfterZeroExit ==
    \A t \in Downloads :
        Result(t) = "Ok" => (proc[t] = "exited" /\ exitCode[t] = "code0")

\* C3: a download that was active when a stop stored the flag reaches a
\* terminal state: it does not stay in its loop forever.  Having been
\* stopped and having returned both last once true, so "again and again"
\* says "from some moment on".
C3_StopLeadsToTerminal ==
    \A t \in Downloads : []<>(stoppedWhileActive[t] => pc[t] = "done")

\* C3 witness: a download stopped while active has returned although a
\* later invocation had reset the flag.
C3_Witness ==
    \E t \in Downloads :
        /\ stoppedWhileActive[t]
        /\ pc[t] = "done"
        /\ Outcome(t) = "failed"

\* C4: once an invocation has returned Cancelled, nothing more is emitted
\* for it.
C4_NoEventAfterCancelled ==
    [][\A t \in Downloads :
          Outcome(t) = "cancelled" => emitted'[t] = emitted[t]]_vars

\* C4 witness: a download that had emitted "downloading" ended Cancelled.
C4_Witness ==
    \E t \in Downloads :
        /\ Outcome(t) = "cancelled"
        /\ emitted[t] = <<"downloading">>

\* C5 as stated: at most one download process runs at any moment.
C5_AtMostOneProcess ==
    Cardinality({t \in Downloads : proc[t] = "running"}) <= 1

\* C5 amended: every invocation starts at most one process, the bundled or
\* the system one, and has a process exactly if it started one.
C5_OneProcessPerInvocation ==
    \A t \in Downloads :
        /\ spawnCount[t] <= 1
        /\ (spawnCount[t] = 1) <=> (proc[t] # "none")
        /\ (spawnCount[t] = 1) <=> (path[t] # "none")

\* C5 witness: two invocations each run their own process at once.
C5_Witness ==
    \E t1, t2 \in Downloads :
        /\ t1 # t2
        /\ proc[t1] = "running" /\ spawnCount[t1] = 1
        /\ proc[t2] = "running" /\ spawnCount[t2] = 1

\* C6: no return of the supervisor leaves its child running.
C6_NoReturnLeavesChildRunning ==
    \A t \in Downloads : pc[t] = "done" => proc[t] # "running"

\* C7 as stated: a download that was active when a stop stored the flag
\* never ends as failed or as finished.
C7_StopNeverFailsOrFinishes ==
    \A t \in Downloads :
        (pc[t] = "done" /\ stoppedWhileActive[t])
           => Outcome(t) \notin {"failed", "finished"}

\* C7 amended: a supervisor that reads the flag while a stop's store is in
\* it has returned Cancelled.
C7_SeenFlagCancels ==
    \A t \in Downloads :
        seenFrom[t] # "none" => (pc[t] = "done" /\ Outcome(t) = "cancelled")

\* C7 witness: a download active at the stop read the flag and ended
\* Cancelled.
C7_Witness ==
    \E t \in Downloads :
        /\ stoppedWhileActive[t]
        /\ seenFrom[t] \in Stops
        /\ Outcome(t) = "cancelled"

\* The stop_download part of C8: the flag is stored before the first broad
\* kill and a finished stop has issued exactly two broad kills.
StopOrder ==
    \A s \in Stops :
        /\ issued[s] > 0 => spc[s] \in {"sleep", "done"}
        /\ spc[s] = "sleep" => issued[s] = 1
        /\ spc[s] = "done" => issued[s] = 2

\* C8 as stated: the stop order holds and every supervisor that reports
\* Cancelled has killed its own child and broad-killed.
C8_CancellationOrder ==
    /\ StopOrder
    /\ \A t \in Downloads :
          Outcome(t) = "cancelled" => (childKilled[t] /\ issued[t] = 1)

\* C8 amended: the stop order holds; a supervisor that reads the flag at
\* the head of its loop has killed its own child and broad-killed once when
\* it reports Cancelled; one that reads it after the termination of the
\* child reports Cancelled without any kill.
C8_CancellationOrderAtLoopHead ==
    /\ StopOrder
    /\ \A t \in Downloads :
          /\ ret[t] \in {373, 479} => (childKilled[t] /\ issued[t] = 1)
          /\ ret[t] \in {424, 524}
                => (~childKilled[t] /\ issued[t] = 0 /\ proc[t] = "exited")

\* C8 witness: a stop has finished with two broad kills and a supervisor
\* has cancelled at the head of its loop.
C8_Witness ==
    \E s \in Stops, t \in Downloads :
        /\ spc[s] = "done" /\ issued[s] = 2
        /\ ret[t] \in {373, 479} /\ childKilled[t] /\ issued[t] = 1

\* C9 as stated: a stop issued while no download was in progress returns
\* Ok and neither kills nor cancels a download started after it.
C9_StopWhenIdleIsNoOp ==
    [][\A s \in Stops, t \in Downloads :
          (idleAtStop[s] /\ InProgress(t))
             => /\ pending'[s] < pending[s] => proc'[t] = proc[t]
                /\ seenFrom'[t] # s]_vars

\* C9 amended: a stop issued while no download was in progress returns Ok
\* and its store is never in the flag while a later download is in
\* progress, so it cancels none.
C9_StopWhenIdleCancelsNone ==
    \A s \in Stops :
        /\ spc[s] = "done" => stopRet[s] = "Ok"
        /\ \A t \in Downloads :
              (idleAtStop[s] /\ InProgress(t))
                 => ~(cancelFlag /\ flagBy = s)

\* C9 witness: a download runs its process inside the grace interval of a
\* stop that was issued while nothing was in progress.
C9_Witness ==
    \E s \in Stops, t \in Downloads :
        /\ idleAtStop[s]
        /\ spc[s] = "sleep"
        /\ proc[t] = "running"
        /\ Active(t)

C11_PercentNonDecreasing ==
    \A k \in 1..(Len(progressEvents) - 1) :
        LET e == progressEvents[k]
            f == progressEvents[k + 1]
        IN  /\ e.status = "downloading" /\ f.status = "downloading"
            /\ e.percent <= 10000 /\ f.percent <= 10000
            => \/ e.percent <= f.percent
               \/ e.playlist_index # f.playlist_index

\* Of the first n lines handled, those on which the playlist regex matched
\* and those that named a title.
PositionLines(n) ==
    {k \in 1..n : LineFacts[loopPath][fedLines[k]].caps # None}
TitleLines(n) ==
    {k \in 1..n : LineFacts[loopPath][fedLines[k]].title # None}

\* C12 as stated: every event emitted after a line "Downloading item N of M"
\* carries index N and total M of the last such line handled before it, and
\* the title of the last line that named one.
C12_PositionAndTitleCarried ==
    \A k \in 1..Len(progressEvents) :
        LET e == progressEvents[k]
            ks == PositionLines(emittedAfter[k])
            ts == TitleLines(emittedAfter[k])
        IN  /\ ks # {} =>
                 LET caps == LineFacts[loopPath][fedLines[Max(ks)]].caps[1]
                 IN  /\ e.playlist_index = Some(StripZeros(caps[1]))
                     /\ e.playlist_count = Some(StripZeros(caps[2]))
            /\ ts # {} =>
                 e.title = LineFacts[loopPath][fedLines[Max(ts)]].title

\* C12 amended: the index and total an event carries are those of the last
\* position line handled before it where they fit 32 bits and None where
\* they do not, None too when no position line was handled; the title is
\* that of the last line that named one, None when none did.
C12_PositionThatFitsAndTitleCarried ==
    \A k \in 1..Len(progressEvents) :
        LET e == progressEvents[k]
            ks == PositionLines(emittedAfter[k])
            ts == TitleLines(emittedAfter[k])
        IN  /\ ks # {} =>
                 LET caps == LineFacts[loopPath][fedLines[Max(ks)]].caps[1]
                 IN  /\ e.playlist_index = ParseU32(caps[1])
                     /\ e.playlist_count = ParseU32(caps[2])
            /\ ks = {} => e.playlist_index = None /\ e.playlist_count = None
            /\ ts # {} =>
                 e.title = LineFacts[loopPath][fedLines[Max(ts)]].title
            /\ ts = {} => e.title = None

\* C12 witness: a position line, a destination line and then a progress
\* line were handled, and the event of the last carries 3 of 12 and the
\* title.
C12_Witness ==
    /\ fedLines = <<"item 3", "destination", "progress 42.5">>
    /\ Len(progressEvents) = 1
    /\ progressEvents[1].playlist_index = Some(<<"3">>)
    /\ progressEvents[1].playlist_count = Some(<<"1", "2">>)
    /\ progressEvents[1].title = Some(<<"Clip">>)

\* The events emitted for the k-th line handled.
EventsOf(k) ==
    {j \in 1..Len(progressEvents) :
        emittedAfter[j] = k /\ progressEvents[j].status = "downloading"}

RateAndEtaAfterSize(parts) ==
    /\ parts.prefix = <<"[download]", " ", " ">>
    /\ parts.number.wellFormed
    /\ parts.percentSign
    /\ parts.tail = <<" ", "of", " ", "1", "0", ".", "0", "0", "MiB", " ",
                      "at", " ", "1", ".", "2", "0", "MiB", "/", "s", " ",
                      "ETA", " ", "0", "0", ":", "0", "5">>

\* C14 as stated: for such a line parse_progress returns percent P, rate
\* "1.20MiB/s" and eta "00:05".
C14_RateAndEtaExtracted ==
    parseResult # <<>> /\ RateAndEtaAfterSize(parseLine)
       => /\ parseResult[1] # None
          /\ parseResult[1][1].percent = parseLine.number.value
          /\ parseResult[1][1].speed = <<"1", ".", "2", "0", "MiB", "/", "s">>
          /\ parseResult[1][1].eta = <<"0", "0", ":", "0", "5">>

\* The input of parse_progress holds "[download]".
Tagged(parts) == Contains(parts.prefix, <<"[download]">>)

C16_PercentInRange ==
    \A k \in 1..Len(progressEvents) :
        /\ progressEvents[k].percent >= 0
        /\ progressEvents[k].percent <= 10000

\* What a return of the loop means to the caller.
LoopOutcome ==
    CASE loopRet \in {373, 424, 479, 524} -> "cancelled"
      [] loopRet \in {420, 521} -> "process_error"
      [] loopRet \in {439, 539} -> "finished"
      [] loopRet \in {441, 541} -> "failed"
      [] loopRet = 447 -> "closed"
      [] OTHER -> "none"

\* The outcome that the flag loaded, the event received and the exit code
\* of the last iteration call for, whatever the lines were.
OutcomeCalledFor ==
    IF lastInput.flag THEN "cancelled"
    ELSE CASE lastInput.event \in {"error", "wait_error"} -> "process_error"
           [] lastInput.event \in {"terminated", "wait"} ->
                 IF lastInput.code = "code0" THEN "finished" ELSE "failed"
           [] lastInput.event = "closed" -> "closed"
           [] OTHER -> "none"

\* C17: handling a line never ends the loop with a return, a line that
\* holds no position, title or progress has no event, and the outcome of a
\* loop that returned is the one its last flag load, process event and exit
\* code call for, whatever lines it handled.
C17_LinesDoNotDecideOutcome ==
    /\ lastInput.event = "stdout" /\ ~lastInput.flag
          => loopPc = "loop" /\ loopRet = 0
    /\ lastInput.event = "read_error" => loopPc = "wait" /\ loopRet = 0
    /\ \A k \in 1..Len(fedLines) :
          LET facts == LineFacts[loopPath][fedLines[k]]
          IN  facts.caps = None /\ facts.title = None /\ facts.parsed = None
                 => EventsOf(k) = {}
    /\ loopPc = "done" => LoopOutcome = OutcomeCalledFor

\* C17 witness: a loop that handled an unrecognized line and one that is
\* not UTF-8 has returned success on exit code 0.
C17_Witness ==
    /\ loopPc = "done"
    /\ fedLines = <<"warning", "not utf-8", "progress 42.5">>
    /\ LoopOutcome = "finished"
    /\ Len(progressEvents) = 2

\* C18 as stated: a request fails to start only when the search-path
\* executable, the fallback, could not be started either, so every start
\* failure is the one of lib.rs:456 with its "Please install yt-dlp".
C18_StartFailsOnlyAfterFallback ==
    \A t \in Downloads : Outcome(t) = "spawn_error" => ret[t] = 456

\* C19: stop_download never returns an error: every call that has returned
\* returned Ok(()), the second of two calls in a row too, with a download
\* process running, exited or never started.
C19_StopNeverFails ==
    \A s \in Stops :
        /\ stopRet[s] \in {"none", "Ok"}
        /\ spc[s] = "done" => stopRet[s] = "Ok"

\* C19 witness: the second call in a row has returned Ok(()), four broad
\* kills made, after the download process had exited.
C19_Witness ==
    \E s \in Stops, t \in StoppedDownloads :
        /\ spc[s] = "done"
        /\ issued[s] = 2 * MaxStopCalls
        /\ stopRet[s] = "Ok"
        /\ proc[t] = "exited"

\* C20 as stated: when get_video_transcript has returned, nothing that the
\* request had written was left: no caption file of its run and, where it
\* staged files, no temporary directory.
C20_NothingLeftBehind ==
    \A r \in Requests : transcriptPc[r] = "done" => leftBehind[r] = {}

\* C21 as stated: a transcript returned from a caption file was parsed from
\* a file that the returning request's own run of yt-dlp wrote, never from
\* a file of an earlier or a concurrently running request.
C21_StagingPrivate ==
    \A r \in Requests :
        transcriptRet[r] = 68 => transcriptFrom[r] = r

\* C22 as stated: a caption file's text is returned as the transcript only
\* if it has more than ten whitespace-separated tokens; a file with ten or
\* fewer is skipped.
C22_OnlyNonTrivialAccepted ==
    \A r \in Requests :
        transcriptRet[r] = 68 => transcriptPick[r].text = "long"

\* C23 as stated: the caption strategies come first; a request fails with
\* the no-transcript error only after it has asked for the item's
\* description, and a request never succeeds with a blank text.
C23_OrderedFallback ==
    \A r \in Requests :
        /\ transcriptRet[r] = 68 => transcriptPick[r].text # "blank"
        /\ transcriptRet[r] = 79 =>
              \E i \in 1..Len(toolRuns[r]) : toolRuns[r][i] = "--print description"

\* The file name says English.
English(f) == f = "transcript.en.vtt"

\* Characters of a file name.
NameLength ==
    [f \in CaptionFiles |-> IF f = "transcript.en.vtt" THEN 17 ELSE 22]

\* File g ranks before file f: English first, then the shorter name.
Outranks(g, f) ==
    \/ English(g) /\ ~English(f)
    \/ English(g) = English(f) /\ NameLength[g] < NameLength[f]

\* C24 as stated: the returned transcript comes from the highest-ranked
\* caption file that yields usable text: no file that ranks before it and
\* holds more than ten words was still in the directory, passed over.
C24_HighestRankedReturned ==
    \A r \in Requests :
        transcriptRet[r] = 68 =>
            \A o \in transcriptPick[r].passedOver :
                o[2] = "long" => ~Outranks(o[1], transcriptPick[r].file)

RECURSIVE CleanedLines(_)
\* The lines that are retained, each with its tags stripped and trimmed,
\* before any duplicate is dropped.
CleanedLines(lines) ==
    IF lines = <<>> THEN <<>>
    ELSE IF SkippedLine(StrTrim(lines[1])) \/ CleanLine(StrTrim(lines[1])) = <<>>
         THEN CleanedLines(Tail(lines))
         ELSE <<CleanLine(StrTrim(lines[1]))>> \o CleanedLines(Tail(lines))

RECURSIVE Collapsed(_)
\* A sequence without the entries equal to the entry right before them.
Collapsed(q) ==
    IF Len(q) <= 1 THEN q
    ELSE IF q[Len(q)] = q[Len(q) - 1]
         THEN Collapsed(SubSeq(q, 1, Len(q) - 1))
         ELSE Append(Collapsed(SubSeq(q, 1, Len(q) - 1)), q[Len(q)])

\* Scenario C of the specification.
ScenarioC == <<"cue 1 Hello <i>world</i>", "cue 2 Hello <i>world</i>">>

\* C25: parse_subtitle_file returns the retained lines, stripped of tags
\* and trimmed, without those equal to the retained line right before them
\* and joined with single spaces: no text stands twice in a row, and the two
\* cues "Hello <i>world</i>" of Scenario C give "Hello world".
C25_ConsecutiveDuplicatesDropped ==
    captionParsed # None =>
        LET kept == Collapsed(CleanedLines(StrLines(ContentOf(captionContent))))
        IN  /\ captionParsed[1] = JoinSpace(kept)
            /\ \A i \in 1..(Len(kept) - 1) : kept[i] # kept[i + 1]
            /\ captionContent = ScenarioC =>
                  captionParsed[1] = <<"Hello", " ", "world">>

\* C25 witness: Scenario C was parsed, its second cue repeating the first,
\* and "Hello world" came back once.
C25_Witness ==
    /\ captionContent = ScenarioC
    /\ captionParsed = Some(<<"Hello", " ", "world">>)

\* C26 as stated: parsing what parse_subtitle_file returned gives the same
\* text again.
C26_Idempotent ==
    captionReparsed # None => captionReparsed = captionParsed

\* C27: generate_summary with an empty or blank transcript fails with
\* NoTranscript and nothing else: no backend is entered, no POST is sent and
\* no NoApiKey is returned, whatever the provider, the key and the endpoint.
C27_EmptyTranscriptRejectedFirst ==
    StrTrim(summaryTranscript) = <<>> =>
        /\ summaryPc \in {"off", "called", "done"}
        /\ backend = "none"
        /\ posts = <<>>
        /\ summaryPc = "done" => summaryRet = Some(Err("NoTranscript", None))

\* C27 witness: a call for a cloud provider without a key and with a
\* transcript of blanks has returned NoTranscript.
C27_Witness ==
    /\ summaryPc = "done"
    /\ summaryTranscript = <<" ", " ">>
    /\ aiConfig.provider = "OpenAI"
    /\ aiConfig.api_key = None
    /\ summaryRet = Some(Err("NoTranscript", None))

\* The backend of each provider.
BindingOf(provider) ==
    CASE provider = "Gemini" -> "generate_with_gemini"
      [] provider = "OpenAI" -> "generate_with_openai"
      [] provider = "Ollama" -> "generate_with_ollama"

\* C28: with a transcript to summarise, a cloud provider without a key ends
\* in NoApiKey and no POST; the local provider never ends in NoApiKey and
\* posts to http://localhost:11434 when no endpoint is configured; the
\* backend entered is the one of the provider, and so is the POST.
C28_BackendDispatch ==
    /\ (/\ summaryPc = "done"
        /\ StrTrim(summaryTranscript) # <<>>
        /\ aiConfig.provider \in {"Gemini", "OpenAI"}
        /\ aiConfig.api_key = None)
          => (summaryRet = Some(Err("NoApiKey", None)) /\ posts = <<>>)
    /\ aiConfig.provider = "Ollama" =>
          /\ summaryRet # Some(Err("NoApiKey", None))
          /\ (posts # <<>> /\ aiConfig.ollama_url = None) =>
                posts[1].url = <<"http://localhost:11434", "/api/generate">>
    /\ backend \in {"none", BindingOf(aiConfig.provider)}
    /\ posts # <<>> =>
          CASE aiConfig.provider = "Gemini" ->
                  posts[1].url[1] =
                     "https://generativelanguage.googleapis.com/v1beta/models/"
            [] aiConfig.provider = "OpenAI" ->
                  posts[1].url = <<"https://api.openai.com/v1/chat/completions">>
            [] aiConfig.provider = "Ollama" ->
                  posts[1].url[Len(posts[1].url)] = "/api/generate"

\* C28 witness: the local provider, with neither key nor endpoint, has
\* sent its POST to the default endpoint and returned a summary.
C28_Witness ==
    /\ summaryPc = "done"
    /\ aiConfig.provider = "Ollama"
    /\ aiConfig.api_key = None
    /\ aiConfig.ollama_url = None
    /\ posts # <<>>
    /\ posts[1].url = <<"http://localhost:11434", "/api/generate">>
    /\ summaryRet # None /\ summaryRet[1].ok

\* The body is JSON and holds the text where this provider's API puts it.
HasTextOf(provider, body) ==
    \/ provider = "Gemini" /\ body = "gemini json"
    \/ provider = "OpenAI" /\ body = "openai json"
    \/ provider = "Ollama" /\ body = "ollama json"

\* C29: a call that has sent its POST is classified the same way for the
\* three backends: send() failing is NetworkError; a status that is no
\* success is ApiError with the status and the body as far as it could be
\* read; a body that is not JSON (one that broke off is not), or holds no
\* text where the backend looks, is ParseError; otherwise the call succeeds
\* with the text, trimmed, the provider's name and the model.
C29_OutcomeClassified ==
    (summaryPc = "done" /\ posts # <<>>) =>
        IF response.transport = "failed"
        THEN summaryRet = Some(Err("NetworkError", None))
        ELSE IF ~(response.status \in 200..299)
        THEN /\ summaryRet[1].ok = FALSE
             /\ summaryRet[1].error = "ApiError"
             /\ summaryRet[1].detail.status = response.status
             /\ response.body # "broken off" =>
                   summaryRet[1].detail.text = response.body
        ELSE IF ~HasTextOf(aiConfig.provider, response.body)
        THEN summaryRet = Some(Err("ParseError", None))
        ELSE summaryRet = Some([ok |-> TRUE,
                                summary |-> <<"A", " ", "summary">>,
                                provider |-> aiConfig.provider,
                                model |-> aiConfig.model])

\* C29 witness: the OpenAI backend got a 404 whose body is JSON in its own
\* shape and returned ApiError, and not the text.
C29_Witness ==
    /\ summaryPc = "done"
    /\ backend = "generate_with_openai"
    /\ response.status = 404
    /\ response.body = "openai json"
    /\ summaryRet[1].ok = FALSE
    /\ summaryRet[1].error = "ApiError"

\* The child of download t could not be started, or has exited otherwise
\* than with code 0.
ProcessFailed(t) ==
    \/ ret[t] \in {362, 456}
    \/ proc[t] = "exited" /\ exitCode[t] # "code0"

\* C30 as stated: a generate_summary call sends at most one POST and a
\* download_video call starts at most one process, and a call whose POST or
\* whose process failed has returned the failure, and not success, to its
\* caller.
C30_OneAttemptFailuresReturned ==
    /\ Len(posts) <= 1
    /\ \A t \in Downloads : spawnCount[t] <= 1
    /\ (summaryPc = "done" /\ response.transport = "failed") =>
          summaryRet = Some(Err("NetworkError", None))
    /\ \A t \in Downloads :
          (pc[t] = "done" /\ ProcessFailed(t)) => Result(t) # "Ok"

\* C34: the flag is loaded once for every output event received, before the
\* event is looked at: a stdout line for which that load reads the flag set
\* adds no event, changes no local and ends the loop with "Download
\* cancelled", on both paths.
C34_FlaggedLineNeverEmitted ==
    [][(lastInput'.event = "stdout" /\ lastInput'.flag) =>
          /\ progressEvents' = progressEvents
          /\ UNCHANGED <<current_title, current_index, total_count>>
          /\ loopPc' = "done"
          /\ loopRet' = (IF loopPath = "sidecar" THEN 373 ELSE 479)]_vars

\* A loop that had emitted a "downloading" event received one more line
\* while the flag was set.
C34_Witness ==
    /\ lastInput.event = "stdout"
    /\ lastInput.flag
    /\ progressEvents # <<>>
    /\ loopPc = "done"

\* The number of characters of a String.
RECURSIVE CharCount(_)
CharCount(s) == IF s = <<>> THEN 0 ELSE s[1][2] + CharCount(Tail(s))

\* The first n characters of a String.
RECURSIVE CharsTo(_, _)
CharsTo(s, n) ==
    IF n = 0 \/ s = <<>> THEN <<>>
    ELSE IF s[1][2] <= n THEN <<s[1]>> \o CharsTo(Tail(s), n - s[1][2])
    ELSE <<<<s[1][1], n>>>>

\* The prompt a call has put into its request body.
PromptOf(call) ==
    CASE call.fn = "generate_with_gemini" ->
            call.body[1].contents[1].parts[1].text
      [] call.fn = "generate_with_openai" -> call.body[1].messages[1].content
      [] call.fn = "generate_with_ollama" -> call.body[1].prompt

\* What a prompt holds between "Here is the video transcript:" and
\* "Summary:", the blank lines left out.
Embedded(prompt) ==
    LET i == CHOOSE k \in 1..Len(prompt) :
                 prompt[k] = <<"Here is the video transcript:", 1>>
    IN  SubSeq(prompt, i + 2, Len(prompt) - 2)

\* C31: build_prompt succeeds for every transcript; the prompt holds the
\* transcript as it is when it has at most 8000 characters, and its first
\* 8000 characters followed by the marker when it has more.
C31_TranscriptEmbedded ==
    \A c \in BackendCalls :
        backendCalls[c].fn # "none" =>
            /\ ~backendCalls[c].panicked
            /\ Embedded(PromptOf(backendCalls[c])) =
                  IF CharCount(promptArgs.transcript) <= max_len
                  THEN promptArgs.transcript
                  ELSE CharsTo(promptArgs.transcript, max_len)
                          \o <<<<"... [truncated]", 1>>>>

\* C32: the prompts two backend calls put into their request bodies for the
\* same transcript, style and language are the same, whatever backend each
\* call is of and whatever model its config names; a call that builds no
\* prompt for them builds none in any backend.
C32_PromptProviderIndependent ==
    \A c, d \in BackendCalls :
        (backendCalls[c].fn # "none" /\ backendCalls[d].fn # "none") =>
            /\ backendCalls[c].panicked = backendCalls[d].panicked
            /\ ~backendCalls[c].panicked =>
                  PromptOf(backendCalls[c]) = PromptOf(backendCalls[d])

\* Two backends, called with different models, have built their bodies
\* for a transcript that was cut.
C32_Witness ==
    /\ backendCalls["c1"].fn = "generate_with_gemini"
    /\ backendCalls["c2"].fn = "generate_with_ollama"
    /\ backendCalls["c1"].model # backendCalls["c2"].model
    /\ backendCalls["c1"].body # None
    /\ backendCalls["c2"].body # None
    /\ StrLen(promptArgs.transcript) > max_len
    /\ promptArgs.language = "vi"

\* C33: download_video stores false into the flag on entry, before it
\* builds its arguments or starts a process: while a download is in
\* progress the flag never holds the store of a stop that had returned
\* when the download entered, and no load of the download reads one.
C33_EntryResetsFlag ==
    \A t \in Downloads :
        /\ (InProgress(t) /\ cancelFlag) => flagBy \notin enteredAfter[t]
        /\ seenFrom[t] \notin enteredAfter[t]
        /\ spawnCount[t] > 0 => pc[t] # "idle"

\* A download entered after a stop had stored the flag and returned; it
\* started its process and its loop has loaded the flag.
C33_Witness ==
    \E t \in Downloads :
        /\ enteredAfter[t] # {}
        /\ spawnCount[t] = 1
        /\ linesRead[t] > 0
        /\ seenFrom[t] = "none"

\* The alternatives of a format-selection expression, which "/" separates.
RECURSIVE Alternatives(_)
Alternatives(e) ==
    LET slashes == {i \in 1..Len(e) : e[i] = "/"}
    IN  IF slashes = {} THEN <<e>>
        ELSE <<SubSeq(e, 1, Min(slashes) - 1)>>
             \o Alternatives(SubSeq(e, Min(slashes) + 1, Len(e)))

\* The height ceiling of a recognized quality tier.
Ceiling(quality) ==
    CASE quality = "360" -> "360"
      [] quality = "480" -> "480"
      [] quality = "720" -> "720"
      [] quality = "1080" -> "1080"
      [] quality = "2k" -> "1440"
      [] quality = "4k" -> "2160"

VideoRequest ==
    request.quality # "audio" /\ request.format \notin {"mp3", "m4a", "opus"}

\* C35: for a video request of a recognized tier every height filter of the
\* expression has the tier's ceiling, the alternatives go from the most
\* specific to the least (for mp4: mp4 video and m4a audio under the
\* ceiling, any video and audio under it, one stream under it) and the last
\* one is "best"; the expression of an unrecognized tier has no height
\* filter.
C35_CeilingAndFallbackChain ==
    (argsPc = "args" /\ VideoRequest) =>
        LET alts == Alternatives(format_string)
            pairs == <<"+", "bestaudio">>
        IN  IF request.quality \in {"360", "480", "720", "1080", "2k", "4k"}
            THEN LET under == <<"[height<=", Ceiling(request.quality), "]">>
                     chain == <<<<"bestvideo">> \o under \o pairs,
                                <<"best">> \o under, <<"best">>>>
                 IN  /\ \A i \in 1..Len(format_string) :
                           format_string[i] = "[height<=" =>
                              format_string[i + 1] = Ceiling(request.quality)
                     /\ alts[Len(alts)] = <<"best">>
                     /\ alts = IF request.format = "mp4"
                               THEN <<<<"bestvideo">> \o under \o
                                      <<"[ext=mp4]", "+", "bestaudio",
                                        "[ext=m4a]">>>> \o chain
                               ELSE chain
            ELSE /\ \A i \in 1..Len(format_string) :
                       format_string[i] # "[height<="
                 /\ alts[Len(alts)] = <<"best">>

\* The expression was built for "2k" and mp4: four alternatives.
C35_Witness ==
    /\ argsPc = "args"
    /\ request.quality = "2k"
    /\ request.format = "mp4"
    /\ Len(Alternatives(format_string)) = 4

\* The argument list holds the flag.
HasArg(flag) == \E i \in 1..Len(args) : args[i] = <<flag>>

\* The argument list holds the option with this value right after it.
HasOption(option, value) ==
    \E i \in 1..(Len(args) - 1) : args[i] = <<option>> /\ args[i + 1] = <<value>>

AudioRequest ==
    request.quality = "audio" \/ request.format \in {"mp3", "m4a", "opus"}

\* C36: the argument list is in audio mode exactly when the expression is a
\* best-audio one: for quality "audio" or format mp3/m4a/opus it holds -x,
\* the requested container as --audio-format, --audio-quality 0 and no
\* --merge-output-format; otherwise --merge-output-format with the
\* requested container and no -x.  --no-playlist is there exactly when the
\* playlist was not asked for.
C36_AudioModeArguments ==
    argsPc = "args" =>
        /\ AudioRequest <=> format_string[1] = "bestaudio"
        /\ AudioRequest <=> HasArg("-x")
        /\ AudioRequest =>
              /\ HasOption("--audio-format", request.format)
              /\ HasOption("--audio-quality", "0")
              /\ ~HasArg("--merge-output-format")
        /\ ~AudioRequest =>
              HasOption("--merge-output-format", request.format)
        /\ HasArg("--no-playlist") <=> ~request.download_playlist

\* C36 as the code has it: the audio format is the requested container
\* when that is mp3, m4a or opus, and mp3 when quality "audio" comes with
\* another container.
C36_AudioModeArgumentsMp3ByDefault ==
    argsPc = "args" =>
        /\ AudioRequest <=> format_string[1] = "bestaudio"
        /\ AudioRequest <=> HasArg("-x")
        /\ AudioRequest =>
              /\ HasOption("--audio-format",
                           IF request.format \in {"mp3", "m4a", "opus"}
                           THEN request.format ELSE "mp3")
              /\ HasOption("--audio-quality", "0")
              /\ ~HasArg("--merge-output-format")
        /\ AudioRequest <=> ~HasArg("--merge-output-format")
        /\ ~AudioRequest =>
              HasOption("--merge-output-format", request.format)
        /\ HasArg("--no-playlist") <=> ~request.download_playlist
        /\ args[Len(args)] = Url

\* The arguments were built for quality "audio" with the container mkv,
\* the playlist asked for.
C36_Witness ==
    /\ argsPc = "args"
    /\ request.quality = "audio"
    /\ request.format = "mkv"
    /\ request.download_playlist
    /\ HasArg("-x")

\* The "downloading" events the loop of path p emits for these stdout
\* lines, handled with the flag unset, from the given locals on.
RECURSIVE Replay(_, _, _, _, _)
Replay(p, lines, title, index, count) ==
    IF lines = <<>> \/ (p = "tokio" /\ ~IsUtf8(Bytes(lines[1]))) THEN <<>>
    ELSE LET r == HandleStdout(LineFacts[p][lines[1]], title, index, count)
         IN  (IF r.event = None THEN <<>> ELSE r.event)
                \o Replay(p, Tail(lines), r.title, r.index, r.count)

\* C37: the two loops are equivalent: the "downloading" events a loop has
\* emitted for the lines it handled are the events either loop emits for
\* those lines, field by field.
C37_LoopsEquivalent ==
    \A p \in LoopPaths :
        SelectSeq(progressEvents, LAMBDA e : e.status = "downloading")
           = Replay(p, fedLines, None, None, None)

\* C38: the connection is opened at most once and then reused: no call of
\* init_database opens a connection once the database is initialized, at
\* most one connection that was opened is not dropped again, and no call
\* fails because the database is initialized, however two calls
\* interleave; get_db, called while the database is not initialized,
\* returns the error at once.
C38_OpenedOnceThenReused ==
    /\ \A c \in InitCallers :
          /\ opened[c] # "while set"
          /\ dbRet[c] # "Err: Database already initialized"
    /\ Cardinality({c \in InitCallers :
                       opened[c] # "no" /\ dbPc[c] = "setting"}) <= 1
    /\ DB_CONNECTION = "unset" =>
          \A g \in GetCallers :
              /\ getRet[g] \in {"none", "Err: Database not initialized"}
              /\ getRet[g] = "none" => ENABLED GetDb(g)

====
